---------------------------- MODULE Spec2Model ----------------------------
(***************************************************************************)
(* Model of the statement parser (package statement_parser): the validator *)
(* and the deduplicator of utils/validation.py, the statement-type         *)
(* detector of detector.py and the parse pipelines of formats/ and         *)
(* parser.py.                                                              *)
(*                                                                         *)
(* Strings are modelled as sequences of one-character strings, so that     *)
(* lower(), strip() and the substring test `a in b` are computed, not      *)
(* assumed.  Amounts are integers in cents (1.00 = 100).  A Python dict is *)
(* a record with a field `has`, the set of keys the dict holds.            *)
(***************************************************************************)
EXTENDS Integers, Sequences, FiniteSets, TLC

VARIABLES
    txs,        \* deduplicate_transactions: the input list of the call
    out,        \* its result
    out2,       \* the result of applying it to `out` again
    kept,       \* the input positions of the records of `out`, in its order
    isdup,      \* is_duplicate_transaction(txs[1], txs[2]): "none", "true", "false"
    phase,      \* the caller's position: "input", "once", "twice"
    draft,      \* validate_transaction: the transaction of the call
    vres,       \* its ValidationResult
    statement,  \* the parsers: the text of the call, a list of lines
    called,     \* the operation that was called, "none" before the call
    parse_options, \* the ParseOptions of the call
    parse_result,  \* the ParseResult returned, or the exception raised
    drafts,     \* BankStatementParser.parse: `transactions` after _deduplicate
    objects,    \* the fields of the parser objects
    fn_name,    \* a call of one function: the function, "none" before the call
    fn_arg,     \* its argument
    fn_ret      \* the value it returned

dedupVars == <<txs, out, out2, kept, isdup, phase>>

validateVars == <<draft, vres>>

parseVars == <<statement, called, parse_options, parse_result, drafts, objects>>

callVars == <<fn_name, fn_arg, fn_ret>>

vars == <<dedupVars, validateVars, parseVars, callVars>>

-----------------------------------------------------------------------------
(* Bounds of the model *)

MaxTxs == 4

-----------------------------------------------------------------------------
(* Character strings *)

UpperLetters == <<"A","B","C","D","E","F","G","H","I","J","K","L","M",
                  "N","O","P","Q","R","S","T","U","V","W","X","Y","Z">>
LowerLetters == <<"a","b","c","d","e","f","g","h","i","j","k","l","m",
                  "n","o","p","q","r","s","t","u","v","w","x","y","z">>

\* str.lower() on one character
LowerChar(c) ==
    IF \E i \in 1..26 : UpperLetters[i] = c
    THEN LowerLetters[CHOOSE i \in 1..26 : UpperLetters[i] = c]
    ELSE c

\* a list comprehension: the sequence of the values of f, each computed once
List(f) == f \o <<>>

\* an assignment to local variables: F applied to the values assigned
Let(v, F(_)) == F(v)

Let2(v, w, F(_, _)) == F(v, w)

Let3(u, v, w, F(_, _, _)) == F(u, v, w)

\* str.lower()
Lower(s) == List([i \in 1..Len(s) |-> LowerChar(s[i])])

\* str.upper()
UpperChar(c) ==
    IF \E i \in 1..26 : LowerLetters[i] = c
    THEN UpperLetters[CHOOSE i \in 1..26 : LowerLetters[i] = c]
    ELSE c

Upper(s) == List([i \in 1..Len(s) |-> UpperChar(s[i])])

Whitespace == {" ", "\t", "\n"}

IsSpace(c) == c \in Whitespace

\* str.strip()
Strip(s) ==
    IF \A i \in 1..Len(s) : IsSpace(s[i]) THEN <<>>
    ELSE LET first == CHOOSE i \in 1..Len(s) :
                          ~IsSpace(s[i]) /\ \A j \in 1..(i-1) : IsSpace(s[j])
             last  == CHOOSE i \in 1..Len(s) :
                          ~IsSpace(s[i]) /\ \A j \in (i+1)..Len(s) : IsSpace(s[j])
         IN  SubSeq(s, first, last)

\* Python's `a in b` on strings: a occurs in b as a contiguous substring
Contains(b, a) ==
    \E i \in 0..(Len(b) - Len(a)) : SubSeq(b, i + 1, i + Len(a)) = a

DigitChars == <<"0", "1", "2", "3", "4", "5", "6", "7", "8", "9">>

Digits == {DigitChars[i] : i \in 1..10}

\* int() of one digit
DigitValue(c) == (CHOOSE i \in 1..10 : DigitChars[i] = c) - 1

\* int() of a string of digits
RECURSIVE IntOf(_)
IntOf(s) ==
    IF s = <<>> THEN 0
    ELSE 10 * IntOf(SubSeq(s, 1, Len(s) - 1)) + DigitValue(s[Len(s)])

\* str() of a natural number
RECURSIVE IntToStr(_)
IntToStr(n) ==
    IF n < 10 THEN <<DigitChars[n + 1]>>
    ELSE IntToStr(n \div 10) \o <<DigitChars[(n % 10) + 1]>>

\* str.zfill(width)
RECURSIVE Zfill(_, _)
Zfill(s, width) == IF Len(s) >= width THEN s ELSE Zfill(<<"0">> \o s, width)

IsDigits(s) == \A i \in 1..Len(s) : s[i] \in Digits

-----------------------------------------------------------------------------
(* Regular expressions.  Offsets are Python's: offset p stands before the   *)
(* character s[p] (the p+1-st of the sequence), a match is the pair of its  *)
(* start() and end().                                                       *)

Letters == {UpperLetters[i] : i \in 1..26} \cup {LowerLetters[i] : i \in 1..26}

\* the class \w
WordChars == Letters \cup Digits \cup {"_"}

Min(a, b) == IF a < b THEN a ELSE b

Max(a, b) == IF a > b THEN a ELSE b

\* s[p]; the empty string outside of s, which belongs to no class
Ch(s, p) == IF p >= 0 /\ p < Len(s) THEN s[p + 1] ELSE ""

\* the slice s[a:b]
Slice(s, a, b) ==
    LET e == Min(b, Len(s)) IN IF a >= e THEN <<>> ELSE SubSeq(s, a + 1, e)

\* the slice s[a:]
From(s, a) == Slice(s, a, Len(s))

\* the end of the longest run of characters of `class` that starts at p
RunEnd(s, p, class) ==
    CHOOSE q \in p..Max(p, Len(s)) :
        /\ \A k \in p..(q - 1) : Ch(s, k) \in class
        /\ Ch(s, q) \notin class

\* \b at offset p
WordBoundary(s, p) == (Ch(s, p - 1) \in WordChars) # (Ch(s, p) \in WordChars)

\* None, and the result of a search that found nothing
None == <<"None">>

NoMatch == [start |-> -1, end |-> -1]

\* pattern.search(s): the leftmost offset at which MatchAt yields an end
Search(s, MatchAt(_, _)) ==
    IF \E p \in 0..(Len(s) - 1) : MatchAt(s, p) >= 0
    THEN LET p == CHOOSE p \in 0..(Len(s) - 1) :
                      /\ MatchAt(s, p) >= 0
                      /\ \A q \in 0..(p - 1) : MatchAt(s, q) < 0
         IN  [start |-> p, end |-> MatchAt(s, p)]
    ELSE NoMatch

\* str.find(sub): the least offset of sub in s, -1 without
Find(s, sub) ==
    IF Contains(s, sub)
    THEN CHOOSE i \in 0..(Len(s) - Len(sub)) :
             /\ Slice(s, i, i + Len(sub)) = sub
             /\ \A j \in 0..(i - 1) : Slice(s, j, j + Len(sub)) # sub
    ELSE -1

\* str.strip(chars)
StripChars(s, chars) ==
    IF \A i \in 1..Len(s) : s[i] \in chars THEN <<>>
    ELSE LET first == CHOOSE i \in 1..Len(s) :
                          s[i] \notin chars /\ \A j \in 1..(i-1) : s[j] \in chars
             last  == CHOOSE i \in 1..Len(s) :
                          s[i] \notin chars /\ \A j \in (i+1)..Len(s) : s[j] \in chars
         IN  SubSeq(s, first, last)

\* str.split(delimiter) for a one-character delimiter
RECURSIVE Split(_, _)
Split(s, delimiter) ==
    IF \E i \in 1..Len(s) : s[i] = delimiter
    THEN LET i == CHOOSE i \in 1..Len(s) :
                      s[i] = delimiter /\ \A j \in 1..(i - 1) : s[j] # delimiter
         IN  <<SubSeq(s, 1, i - 1)>> \o Split(SubSeq(s, i + 1, Len(s)), delimiter)
    ELSE <<s>>

\* str.split(): the words between runs of whitespace
RECURSIVE Words(_)
Words(s) ==
    Let(Strip(s), LAMBDA t :
        IF t = <<>> THEN <<>> ELSE
    Let(RunEnd(t, 0, {t[i] : i \in 1..Len(t)} \ Whitespace), LAMBDA e :
        <<Slice(t, 0, e)>> \o Words(From(t, e))))

\* ' '.join(words)
RECURSIVE JoinWords(_)
JoinWords(words) ==
    IF words = <<>> THEN <<>>
    ELSE IF Len(words) = 1 THEN words[1]
    ELSE words[1] \o <<" ">> \o JoinWords(Tail(words))

\* str.count(c) of one character
Count(s, c) == Cardinality({i \in 1..Len(s) : s[i] = c})

\* '0' * n
Zeros(n) == [k \in 1..n |-> "0"]

\* float(s) for a string of digits with an optional fraction, in units of
\* 10^-digits; the decimals after that are dropped (the texts given to it
\* carry no more).  float() rejects a string without a digit.
python_float_digits(s, digits) ==
    Let(Find(s, <<".">>), LAMBDA dot :
    Let2(IF dot = -1 THEN s ELSE Slice(s, 0, dot),
         IF dot = -1 THEN <<>> ELSE From(s, dot + 1), LAMBDA int_part, frac :
        IF IsDigits(int_part) /\ IsDigits(frac) /\ Len(int_part) + Len(frac) > 0
        THEN [num |-> TRUE,
              v |-> (10 ^ digits) * IntOf(int_part)
                      + IntOf(Slice(frac \o Zeros(digits), 0, digits))]
        ELSE [num |-> FALSE, v |-> 0]))

\* float(s) in cents
python_float(s) == python_float_digits(s, 2)

\* str.replace(c, '') of one character
Remove(s, c) == SelectSeq(s, LAMBDA x : x # c)

-----------------------------------------------------------------------------
(* patterns/generic.py *)

\* DATE_PATTERN_DDMMYYYY = (\d{1,2}/\d{1,2}/\d{2,4}) matched at p: the end
\* of the match, -1 without
date_ddmmyyyy_at(s, p) ==
    Let(RunEnd(s, p, Digits), LAMBDA a :
        IF ~(a - p \in 1..2 /\ Ch(s, a) = "/") THEN -1 ELSE
    Let(RunEnd(s, a + 1, Digits), LAMBDA b :
        IF ~(b - (a + 1) \in 1..2 /\ Ch(s, b) = "/") THEN -1 ELSE
    Let(RunEnd(s, b + 1, Digits), LAMBDA c :
        IF c - (b + 1) < 2 THEN -1 ELSE Min(c, b + 5))))

\* DATE_PATTERN_DDMMMYYYY = (\d{1,2}\s+[A-Za-z]{3}\s+\d{2,4}) matched at p
date_ddmmmyyyy_at(s, p) ==
    Let(RunEnd(s, p, Digits), LAMBDA a :
        IF ~(a - p \in 1..2 /\ Ch(s, a) \in Whitespace) THEN -1 ELSE
    Let(RunEnd(s, a, Whitespace), LAMBDA b :
    Let(RunEnd(s, b, Letters), LAMBDA c :
        IF ~(c - b = 3 /\ Ch(s, c) \in Whitespace) THEN -1 ELSE
    Let(RunEnd(s, c, Whitespace), LAMBDA d :
    Let(RunEnd(s, d, Digits), LAMBDA e :
        IF e - d < 2 THEN -1 ELSE Min(e, d + 4))))))

\* DATE_PATTERN_YYYYMMDD = (\d{4}-\d{1,2}-\d{1,2}) matched at p
date_yyyymmdd_at(s, p) ==
    IF ~(IsDigits(Slice(s, p, p + 4)) /\ p + 4 < Len(s) /\ Ch(s, p + 4) = "-")
    THEN -1 ELSE
    Let(RunEnd(s, p + 5, Digits), LAMBDA b :
        IF ~(b - (p + 5) \in 1..2 /\ Ch(s, b) = "-") THEN -1 ELSE
    Let(RunEnd(s, b + 1, Digits), LAMBDA c :
        IF c - (b + 1) < 1 THEN -1 ELSE Min(c, b + 3)))

DATE_PATTERN_DDMMYYYY(s) == Search(s, date_ddmmyyyy_at)

DATE_PATTERN_DDMMMYYYY(s) == Search(s, date_ddmmmyyyy_at)

DATE_PATTERN_YYYYMMDD(s) == Search(s, date_yyyymmdd_at)

AmountChars == Digits \cup {","}

\* AMOUNT_PATTERN = ([0-9,]+(?:\.[0-9]+)?)\s*(Cr|CR|Dr|DR)? with IGNORECASE,
\* matched at p where s[p] is a digit or a comma; group2 is None without suffix
amount_match_at(s, p) ==
    Let(RunEnd(s, p, AmountChars), LAMBDA e1 :
    Let(IF Ch(s, e1) = "." /\ Ch(s, e1 + 1) \in Digits
        THEN RunEnd(s, e1 + 1, Digits) ELSE e1, LAMBDA e2 :
    Let(RunEnd(s, e2, Whitespace), LAMBDA e3 :
    Let(Slice(s, e3, e3 + 2), LAMBDA suffix :
    Let(Lower(suffix) \in {<<"c", "r">>, <<"d", "r">>}, LAMBDA marked :
        [start |-> p,
         end |-> IF marked THEN e3 + 2 ELSE e3,
         group1 |-> Slice(s, p, e2),
         group2 |-> IF marked THEN suffix ELSE None])))))

\* list(AMOUNT_PATTERN.finditer(s)), scanning from offset p
RECURSIVE amount_finditer(_, _)
amount_finditer(s, p) ==
    IF \E q \in p..(Len(s) - 1) : Ch(s, q) \in AmountChars
    THEN Let(amount_match_at(s, CHOOSE q \in p..(Len(s) - 1) :
                                    /\ Ch(s, q) \in AmountChars
                                    /\ \A k \in p..(q - 1) : Ch(s, k) \notin AmountChars),
             LAMBDA m : <<m>> \o amount_finditer(s, m.end))
    ELSE <<>>

\* SKIP_KEYWORDS
SKIP_KEYWORDS ==
    {<<"a", "c", "c", "o", "u", "n", "t", " ", "n", "u", "m", "b", "e", "r">>,
     <<"a", "c", "c", "o", "u", "n", "t", " ", "s", "u", "m", "m", "a", "r", "y">>,
     <<"a", "c", "c", "o", "u", "n", "t", ":">>, <<"a", "d", "d", "r", "e", "s", "s">>,
     <<"a", "d", "d", "r", "e", "s", "s", ":">>, <<"a", "m", "o", "u", "n", "t">>,
     <<"a", "v", "a", "i", "l", "a", "b", "l", "e", " ", "b", "a", "l", "a", "n", "c", "e">>,
     <<"b", "a", "l", "a", "n", "c", "e">>,
     <<"b", "a", "l", "a", "n", "c", "e", " ", "t", "r", "a", "n", "s", "f", "e", "r">>,
     <<"b", "e", "n", "e", "f", "i", "c", "i", "a", "r", "y">>,
     <<"b", "i", "l", "l", "i", "n", "g", " ", "p", "e", "r", "i", "o", "d">>,
     <<"b", "o", "n", "u", "s">>, <<"b", "r", "a", "n", "c", "h", " ", "c", "o", "d", "e">>,
     <<"b", "r", "a", "n", "c", "h", ":">>,
     <<"c", "a", "r", "d", " ", "h", "o", "l", "d", "e", "r">>,
     <<"c", "a", "r", "d", " ", "n", "o">>,
     <<"c", "a", "r", "d", " ", "n", "u", "m", "b", "e", "r">>,
     <<"c", "a", "r", "d", " ", "s", "u", "m", "m", "a", "r", "y">>, <<"c", "a", "r", "d", ":">>,
     <<"c", "a", "r", "d", "h", "o", "l", "d", "e", "r">>,
     <<"c", "a", "s", "h", "b", "a", "c", "k">>, <<"c", "h", "a", "r", "g", "e", "s">>,
     <<"c", "h", "e", "q", "u", "e">>, <<"c", "h", "q">>, <<"c", "l", "i", "e", "n", "t">>,
     <<"c", "l", "o", "s", "i", "n", "g", " ", "b", "a", "l", "a", "n", "c", "e">>,
     <<"c", "o", "n", "d", "i", "t", "i", "o", "n", "s">>,
     <<"c", "o", "n", "t", "i", "n", "u", "e", "d">>, <<"c", "r">>,
     <<"c", "r", "e", "d", "i", "t">>,
     <<"c", "r", "e", "d", "i", "t", " ", "l", "i", "m", "i", "t">>,
     <<"c", "u", "s", "t", "o", "m", "e", "r">>,
     <<"c", "u", "s", "t", "o", "m", "e", "r", " ", "i", "d">>, <<"d", "e", "b", "i", "t">>,
     <<"d", "e", "p", "o", "s", "i", "t">>,
     <<"d", "e", "s", "c", "r", "i", "p", "t", "i", "o", "n">>,
     <<"d", "u", "e", " ", "d", "a", "t", "e">>, <<"e", "a", "r", "n", "i", "n", "g", "s">>,
     <<"e", "m", "a", "i", "l">>, <<"e", "m", "a", "i", "l", " ", "i", "d">>, <<"e", "m", "i">>,
     <<"e", "n", "c", "a", "s", "h">>, <<"e", "n", "d">>, <<"f", "a", "x">>,
     <<"f", "e", "e", "s">>, <<"f", "l", "e", "x", "i", "p", "a", "y">>, <<"g", "s", "t">>,
     <<"h", "o", "l", "d", "e", "r">>, <<"h", "t", "t", "p">>, <<"i", "f", "s", "c">>,
     <<"i", "m", "p", "o", "r", "t", "a", "n", "t">>, <<"i", "n", "t", "e", "r", "e", "s", "t">>,
     <<"l", "a", "n", "d", "l", "i", "n", "e">>, <<"m", "e", "m", "b", "e", "r">>,
     <<"m", "e", "s", "s", "a", "g", "e", "s">>, <<"m", "i", "c", "r", " ", "c", "o", "d", "e">>,
     <<"m", "i", "n", "i", "m", "u", "m", " ", "a", "m", "o", "u", "n", "t">>,
     <<"m", "o", "b", "i", "l", "e">>, <<"m", "o", "b", "i", "l", "e", " ", "n", "o">>,
     <<"m", "o", "b", "i", "l", "e", " ", "n", "u", "m", "b", "e", "r">>,
     <<"n", "a", "r", "r", "a", "t", "i", "o", "n">>, <<"n", "o", ".">>,
     <<"n", "o", "t", "e", "s">>,
     <<"o", "p", "e", "n", "i", "n", "g", " ", "b", "a", "l", "a", "n", "c", "e">>,
     <<"p", "a", "g", "e">>, <<"p", "a", "g", "e", " ", "n", "o">>,
     <<"p", "a", "g", "e", " ", "n", "u", "m", "b", "e", "r">>,
     <<"p", "a", "i", "d", " ", "d", "a", "t", "e">>, <<"p", "a", "y", "e", "r">>,
     <<"p", "a", "y", "m", "e", "n", "t", " ", "d", "u", "e">>, <<"p", "e", "r", "i", "o", "d">>,
     <<"p", "e", "r", "s", "o", "n", "a", "l", " ", "d", "e", "t", "a", "i", "l", "s">>,
     <<"p", "h", "o", "n", "e">>, <<"p", "o", "i", "n", "t", "s">>,
     <<"p", "r", "o", "d", "u", "c", "t", " ", "c", "o", "d", "e">>,
     <<"r", "e", "c", "i", "p", "i", "e", "n", "t">>, <<"r", "e", "f", " ", "n", "o">>,
     <<"r", "e", "f", "e", "r", "e", "n", "c", "e">>,
     <<"r", "e", "f", "e", "r", "e", "n", "c", "e", " ", "n", "u", "m", "b", "e", "r">>,
     <<"r", "e", "g", "a", "r", "d", "s">>, <<"r", "e", "w", "a", "r", "d">>,
     <<"r", "e", "w", "a", "r", "d", " ", "p", "o", "i", "n", "t", "s">>,
     <<"s", "e", "n", "d", "e", "r">>, <<"s", "e", "r", "i", "a", "l">>,
     <<"s", "i", "n", "c", "e", "r", "e", "l", "y">>, <<"s", "l">>,
     <<"s", "t", "a", "t", "e", "m", "e", "n", "t", " ", "d", "a", "t", "e">>,
     <<"s", "t", "a", "t", "e", "m", "e", "n", "t", " ", "f", "r", "o", "m">>,
     <<"s", "t", "a", "t", "e", "m", "e", "n", "t", " ", "p", "e", "r", "i", "o", "d">>,
     <<"s", "t", "a", "t", "e", "m", "e", "n", "t", " ", "t", "o">>,
     <<"s", "u", "m", "m", "a", "r", "y">>, <<"t", "a", "x">>, <<"t", "e", "r", "m", "s">>,
     <<"t", "h", "a", "n", "k", " ", "y", "o", "u">>,
     <<"t", "o", "t", "a", "l", " ", "a", "m", "o", "u", "n", "t">>,
     <<"t", "r", "a", "n", "s", "a", "c", "t", "i", "o", "n", " ", "d", "a", "t", "e">>,
     <<"t", "r", "a", "n", "s", "a", "c", "t", "i", "o", "n", " ", "d", "e", "t", "a", "i", "l", "s">>,
     <<"t", "r", "a", "n", "s", "a", "c", "t", "i", "o", "n", " ", "i", "d">>,
     <<"t", "r", "a", "n", "s", "a", "c", "t", "i", "o", "n", " ", "r", "e", "f", "e", "r", "e", "n", "c", "e">>,
     <<"t", "r", "a", "n", "s", "a", "c", "t", "i", "o", "n", " ", "s", "u", "m", "m", "a", "r", "y">>,
     <<"t", "r", "a", "n", "s", "a", "c", "t", "i", "o", "n", " ", "t", "y", "p", "e">>,
     <<"t", "x", "n", " ", "i", "d">>, <<"v", "a", "l", "u", "e", " ", "d", "a", "t", "e">>,
     <<"w", "e", "b", "s", "i", "t", "e">>, <<"w", "i", "t", "h", "d", "r", "a", "w", "a", "l">>,
     <<"w", "w", "w">>, <<"y", "o", "u", "r">>}

\* the characters the fifth pattern of SKIP_PATTERNS excludes
SkipPatternExcluded ==
    Letters \cup Digits \cup
    {"@", "#", "$", "%", "^", "&", "*", "(", ")", "-", "_", "=", "+", "[", "]",
     "{", "}", "|", ";", ":", "'", "\"", ",", ".", "<", ">", "/", "?", "\\"}

\* ^\s*Page\s+\d+\s*[-=]*$ matched on the stripped line t
skip_pattern_page(t) ==
    /\ Slice(t, 0, 4) = <<"P", "a", "g", "e">>
    /\ Let(RunEnd(t, 4, Whitespace), LAMBDA b :
       Let(RunEnd(t, b, Digits), LAMBDA c :
           b > 4 /\ c > b /\ RunEnd(t, RunEnd(t, c, Whitespace), {"-", "="}) = Len(t)))

\* any(re.match(pattern, line.strip()) for pattern in SKIP_PATTERNS)
matches_skip_pattern(t) ==
    \/ t # <<>> /\ \A i \in 1..Len(t) : t[i] \in {"-", "_", "="}
    \/ skip_pattern_page(t)
    \/ t = <<"c", "o", "n", "t", "i", "n", "u", "e", "d">>
    \/ t = <<"E", "n", "d">>
    \/ t # <<>> /\ \A i \in 1..Len(t) : t[i] \notin SkipPatternExcluded

\* re.search(r'\b' + re.escape(keyword) + r'\b', line_lower): any offset
\* counts as the start of the keyword (mutant: the substring test)
keyword_in_line_substring(line_lower, keyword) ==
    \E i \in 0..(Len(line_lower) - Len(keyword)) :
        Slice(line_lower, i, i + Len(keyword)) = keyword

\* re.search(r'\b' + re.escape(keyword) + r'\b', line_lower): the keyword
\* stands at an offset where its first character does
keyword_in_line(line_lower, keyword) ==
    \E i \in 0..(Len(line_lower) - Len(keyword)) :
        /\ Ch(line_lower, i) = keyword[1]
        /\ WordBoundary(line_lower, i)
        /\ WordBoundary(line_lower, i + Len(keyword))
        /\ Slice(line_lower, i, i + Len(keyword)) = keyword

\* is_skip_line(line)
is_skip_line(line) ==
    Let2(Strip(line), Lower(line), LAMBDA stripped, line_lower :
        \/ stripped = <<>>
        \/ matches_skip_pattern(stripped)
        \/ \E keyword \in SKIP_KEYWORDS : keyword_in_line(line_lower, keyword))

\* year = f"20{year_int}" if year_int < 50 else f"19{year_int}" for a year of
\* two digits
expand_year(year) ==
    IF Len(year) = 2
    THEN (IF IntOf(year) < 50 THEN <<"2", "0">> ELSE <<"1", "9">>)
           \o IntToStr(IntOf(year))
    ELSE year

\* _MONTH_NAMES restricted to the names of three letters
MonthNames ==
    <<<<"j", "a", "n">>, <<"f", "e", "b">>, <<"m", "a", "r">>, <<"a", "p", "r">>,
      <<"m", "a", "y">>, <<"j", "u", "n">>, <<"j", "u", "l">>, <<"a", "u", "g">>,
      <<"s", "e", "p">>, <<"o", "c", "t">>, <<"n", "o", "v">>, <<"d", "e", "c">>>>

\* date_parser.parse(date_str, dayfirst=day_first) of the library dateutil:
\* the texts of the model hold no date it reads beyond the three formats
\* above, so it raises ValueError and parse_date returns None
dateutil_parse(date_str) == None

month_names_get(month_str) ==
    IF \E n \in 1..12 : MonthNames[n] = month_str
    THEN CHOOSE n \in 1..12 : MonthNames[n] = month_str
    ELSE 0

\* utils/formatting.py: parse_date(date_str)
parse_date(date_str) ==
    Let(Strip(date_str), LAMBDA d :
        IF d = <<>> THEN None ELSE
    Let(IF date_ddmmyyyy_at(d, 0) = Len(d) THEN "slash"
        ELSE IF date_ddmmmyyyy_at(d, 0) = Len(d) THEN "named"
        ELSE "other", LAMBDA format :
    Let(IF format = "slash" THEN Split(d, "/")
        ELSE IF format = "named" THEN Words(d) ELSE <<>>, LAMBDA parts :
    Let(IF format = "named" THEN month_names_get(Lower(parts[2])) ELSE 0, LAMBDA month_num :
        IF format = "slash"
        THEN Zfill(parts[1], 2) \o <<"/">> \o Zfill(parts[2], 2) \o <<"/">>
               \o expand_year(parts[3])
        ELSE IF month_num # 0
        THEN Zfill(parts[1], 2) \o <<"/">> \o Zfill(IntToStr(month_num), 2)
               \o <<"/">> \o expand_year(parts[3])
        ELSE IF date_yyyymmdd_at(d, 0) = Len(d)
        THEN Let(Split(d, "-"), LAMBDA ymd :
                 Zfill(ymd[3], 2) \o <<"/">> \o Zfill(ymd[2], 2) \o <<"/">> \o ymd[1])
        ELSE dateutil_parse(d)))))

\* extract_date(line)
extract_date(line) ==
    Let(DATE_PATTERN_DDMMYYYY(line), LAMBDA slash :
        IF slash # NoMatch
        THEN Let(Split(Slice(line, slash.start, slash.end), "/"), LAMBDA parts :
                 Zfill(parts[1], 2) \o <<"/">> \o Zfill(parts[2], 2) \o <<"/">>
                   \o expand_year(parts[3]))
        ELSE
    Let(DATE_PATTERN_DDMMMYYYY(line), LAMBDA named :
    Let(IF named # NoMatch THEN named ELSE DATE_PATTERN_YYYYMMDD(line), LAMBDA m :
        IF m = NoMatch THEN None ELSE parse_date(Slice(line, m.start, m.end)))))

\* re.sub(r'^[\d\s]+', '', s) and re.sub(r'[\d\s]+$', '', s)
strip_digits_and_spaces(s) == StripChars(s, Digits \cup Whitespace)

NoTransaction == [kind |-> "none"]

AttributeError == [kind |-> "raise"]

\* the amount of the line among amount_matches: the last match of
\* AMOUNT_PATTERN that ends past the middle of the line; without one, the
\* first match that starts after the DD/MM/YYYY date date_match.  The result
\* is a match, None (NoMatch), or the AttributeError of
\* `DATE_PATTERN_DDMMYYYY.search(line).end()` on a line that holds no
\* DD/MM/YYYY date.
select_amount_match(line, amount_matches, date_match) ==
    Let({k \in 1..Len(amount_matches) : 2 * amount_matches[k].end > Len(line)},
        LAMBDA past_middle :
        IF past_middle # {}
        THEN amount_matches[CHOOSE k \in past_middle : \A j \in past_middle : j <= k]
        ELSE IF date_match = NoMatch THEN AttributeError ELSE
    Let({k \in 1..Len(amount_matches) : amount_matches[k].start > date_match.end},
        LAMBDA after_date :
        IF after_date # {}
        THEN amount_matches[CHOOSE k \in after_date : \A j \in after_date : k <= j]
        ELSE NoMatch))

\* parse_generic_line(line): a TransactionMatch, None (NoTransaction), or the
\* exception the call raises
parse_generic_line(line) ==
    IF is_skip_line(line) THEN NoTransaction ELSE
    Let(extract_date(line), LAMBDA date :
        IF date \in {None, <<>>} THEN NoTransaction ELSE
    Let(amount_finditer(line, 0), LAMBDA amount_matches :
        IF amount_matches = <<>> THEN NoTransaction ELSE
    Let(DATE_PATTERN_DDMMYYYY(line), LAMBDA date_match :
    Let(select_amount_match(line, amount_matches, date_match), LAMBDA end_match :
        IF end_match = AttributeError THEN AttributeError
        ELSE IF end_match = NoMatch THEN NoTransaction ELSE
    Let(python_float(Remove(end_match.group1, ",")), LAMBDA amount :
        IF ~amount.num \/ amount.v <= 0 THEN NoTransaction ELSE
    Let(IF date_match # NoMatch THEN date_match.end ELSE 0, LAMBDA start_pos :
    Let(Strip(strip_digits_and_spaces(Strip(Slice(line, start_pos, end_match.start)))),
        LAMBDA description :
        IF Len(description) < 3 THEN NoTransaction
        ELSE [kind |-> "match",
              date |-> date,
              description |-> description,
              amount |-> amount.v,
              is_credit |->
                  end_match.group2 # None /\ Lower(end_match.group2) = <<"c", "r">>])))))))

-----------------------------------------------------------------------------
(* Dates.  A date is the string the transaction holds: DMY(d, m, y) is the  *)
(* zero-padded text DD/MM/YYYY the parsers emit, ShortDMY(d, m, y) the same *)
(* date written without zero padding (it does not match                     *)
(* ^\d{2}/\d{2}/\d{4}$), EmptyDate the empty string.                        *)

EmptyDate == <<>>

DMY(d, m, y) ==
    Zfill(IntToStr(d), 2) \o <<"/">> \o Zfill(IntToStr(m), 2) \o <<"/">>
      \o Zfill(IntToStr(y), 4)

ShortDMY(d, m, y) ==
    IntToStr(d) \o <<"/">> \o IntToStr(m) \o <<"/">> \o IntToStr(y)

IsLeap(y) == (y % 4 = 0) /\ ((y % 100 # 0) \/ (y % 400 = 0))

DaysInMonth(y, m) ==
    IF m = 2 THEN (IF IsLeap(y) THEN 29 ELSE 28)
    ELSE IF m \in {4, 6, 9, 11} THEN 30 ELSE 31

\* datetime(year, month, day) raises ValueError outside these ranges
ValidDate(d, m, y) ==
    /\ y \in 1..9999
    /\ m \in 1..12
    /\ d \in 1..DaysInMonth(y, m)

RECURSIVE DaysBeforeMonth(_, _)
DaysBeforeMonth(y, m) ==
    IF m <= 1 THEN 0 ELSE DaysBeforeMonth(y, m - 1) + DaysInMonth(y, m - 1)

\* datetime.toordinal(): the difference of two ordinals is (date1 - date2).days
Ordinal(d, m, y) ==
    (y - 1) * 365 + ((y - 1) \div 4) - ((y - 1) \div 100) + ((y - 1) \div 400)
      + DaysBeforeMonth(y, m) + d

NoDate == -1

\* re.match(r'^(\d{2})/(\d{2})/(\d{4})$', date_str)
matches_date_format(date) ==
    /\ Len(date) = 10
    /\ date[3] = "/" /\ date[6] = "/"
    /\ IsDigits(SubSeq(date, 1, 2))
    /\ IsDigits(SubSeq(date, 4, 5))
    /\ IsDigits(SubSeq(date, 7, 10))

\* _parse_date_for_dedup: the ordinal of a DD/MM/YYYY string, None otherwise
parse_date_for_dedup(date) ==
    IF ~matches_date_format(date) THEN NoDate ELSE
    Let3(IntOf(SubSeq(date, 1, 2)), IntOf(SubSeq(date, 4, 5)), IntOf(SubSeq(date, 7, 10)),
         LAMBDA day, month, year :
        IF ValidDate(day, month, year) THEN Ordinal(day, month, year) ELSE NoDate)

-----------------------------------------------------------------------------
(* Transactions (Python dicts).  `has` is the set of keys present; a field  *)
(* whose key is absent holds a filler that is never read.  An amount is     *)
(* [num, v]: num is FALSE for a value float() rejects (such as "abc").      *)

Num(v) == [num |-> TRUE, v |-> v]

NotANumber == [num |-> FALSE, v |-> 0]

EmptyStr == <<>>

Abs(x) == IF x < 0 THEN -x ELSE x

\* dict.get(key, default)
Get(tx, key, default) == IF key \in tx.has THEN tx[key] ELSE default

\* default of the parameter threshold_days of is_duplicate_transaction
threshold_days == 1

\* the amount tolerance 0.01 of is_duplicate_transaction, in cents
AmountTolerance == 1

\* is_duplicate_transaction without the reference check (mutant)
is_duplicate_transaction_noref(tx1, tx2) ==
    Let2(Get(tx1, "amount", Num(0)).v, Get(tx2, "amount", Num(0)).v,
         LAMBDA amount1, amount2 :
        IF Abs(amount1 - amount2) > AmountTolerance THEN FALSE ELSE
    Let2(parse_date_for_dedup(Get(tx1, "date", EmptyDate)),
         parse_date_for_dedup(Get(tx2, "date", EmptyDate)), LAMBDA date1, date2 :
        IF date1 = NoDate \/ date2 = NoDate THEN FALSE
        ELSE IF Abs(date1 - date2) > threshold_days THEN FALSE ELSE
    Let2(Strip(Lower(Get(tx1, "narration", EmptyStr))),
         Strip(Lower(Get(tx2, "narration", EmptyStr))), LAMBDA narr1, narr2 :
        IF narr1 # EmptyStr /\ narr2 # EmptyStr /\ narr1 # narr2 THEN FALSE ELSE
    Let2(Strip(Lower(Get(tx1, "description", EmptyStr))),
         Strip(Lower(Get(tx2, "description", EmptyStr))), LAMBDA desc1, desc2 :
        IF desc1 = desc2 THEN TRUE
        ELSE Contains(desc2, desc1) \/ Contains(desc1, desc2)))))

\* is_duplicate_transaction(tx1, tx2): the amounts are numeric (float() of
\* them succeeds).  abs(a1 - a2) > 0.01 is taken on cents; in binary floating
\* point a difference of exactly one cent falls on either side of 0.01.
is_duplicate_transaction(tx1, tx2) ==
    Let2(Get(tx1, "amount", Num(0)).v, Get(tx2, "amount", Num(0)).v,
         LAMBDA amount1, amount2 :
        IF Abs(amount1 - amount2) > AmountTolerance THEN FALSE ELSE
    Let2(parse_date_for_dedup(Get(tx1, "date", EmptyDate)),
         parse_date_for_dedup(Get(tx2, "date", EmptyDate)), LAMBDA date1, date2 :
        IF date1 = NoDate \/ date2 = NoDate THEN FALSE
        ELSE IF Abs(date1 - date2) > threshold_days THEN FALSE ELSE
    Let2(Strip(Get(tx1, "reference", EmptyStr)),
         Strip(Get(tx2, "reference", EmptyStr)), LAMBDA ref1, ref2 :
        IF ref1 # EmptyStr /\ ref2 # EmptyStr /\ ref1 # ref2 THEN FALSE ELSE
    Let2(Strip(Lower(Get(tx1, "narration", EmptyStr))),
         Strip(Lower(Get(tx2, "narration", EmptyStr))), LAMBDA narr1, narr2 :
        IF narr1 # EmptyStr /\ narr2 # EmptyStr /\ narr1 # narr2 THEN FALSE ELSE
    Let2(Strip(Lower(Get(tx1, "description", EmptyStr))),
         Strip(Lower(Get(tx2, "description", EmptyStr))), LAMBDA desc1, desc2 :
        IF desc1 = desc2 THEN TRUE
        ELSE Contains(desc2, desc1) \/ Contains(desc1, desc2))))))

\* _get_dedup_key: (float(amount), date string)
get_dedup_key(tx) ==
    <<Get(tx, "amount", Num(0)).v, Get(tx, "date", EmptyDate)>>

-----------------------------------------------------------------------------
(* deduplicate_transactions.  The lists hold indices into the input list,   *)
(* so that a record is told from an equal record at another position.       *)

\* Phase 1: the keys of `groups` in insertion order (a dict keeps it)
RECURSIVE group_keys(_, _, _)
group_keys(list, i, acc) ==
    IF i > Len(list) THEN acc
    ELSE LET key == get_dedup_key(list[i])
         IN  IF \E k \in 1..Len(acc) : acc[k] = key
             THEN group_keys(list, i + 1, acc)
             ELSE group_keys(list, i + 1, Append(acc, key))

\* groups[key]: the indices of the records with that key, in input order
RECURSIVE group_of(_, _, _, _)
group_of(list, key, i, acc) ==
    IF i > Len(list) THEN acc
    ELSE group_of(list, key, i + 1,
                  IF get_dedup_key(list[i]) = key THEN Append(acc, i) ELSE acc)

\* a later duplicate takes the place of the record it matches (mutant)
accept_last_wins(list, unique, i) ==
    IF \E k \in 1..Len(unique) : is_duplicate_transaction(list[i], list[unique[k]])
    THEN LET k == CHOOSE k \in 1..Len(unique) :
                     /\ is_duplicate_transaction(list[i], list[unique[k]])
                     /\ \A j \in 1..(k - 1) :
                            ~is_duplicate_transaction(list[i], list[unique[j]])
         IN  [unique EXCEPT ![k] = i]
    ELSE Append(unique, i)

\* the body of `for tx in group`: tx is appended to unique unless it matches
\* a record of unique
accept(list, unique, i) ==
    IF \E k \in 1..Len(unique) : is_duplicate_transaction(list[i], list[unique[k]])
    THEN unique
    ELSE Append(unique, i)

RECURSIVE scan_group(_, _, _, _)
scan_group(list, group, g, unique) ==
    IF g > Len(group) THEN unique
    ELSE scan_group(list, group, g + 1, accept(list, unique, group[g]))

\* Phase 2: `for group in groups.values()`
RECURSIVE scan_groups(_, _, _, _)
scan_groups(list, keys, k, unique) ==
    IF k > Len(keys) THEN unique
    ELSE LET group == group_of(list, keys[k], 1, <<>>)
         IN  scan_groups(list, keys, k + 1,
                 IF Len(group) = 1 THEN Append(unique, group[1])
                 ELSE scan_group(list, group, 1, unique))

\* the input positions of the records deduplicate_transactions returns, in
\* the order of the returned list
dedup_indices(list) ==
    IF list = <<>> THEN <<>>
    ELSE scan_groups(list, group_keys(list, 1, <<>>), 1, <<>>)

deduplicate_transactions(list) ==
    LET idx == dedup_indices(list) IN List([k \in 1..Len(idx) |-> list[idx[k]]])


-----------------------------------------------------------------------------
(* validate_transaction *)

\* the sanity ceiling 10000000 (1 crore) of validate_transaction, in cents
LargeAmount == 1000000000

\* the minimal length of a description
MinDescriptionLen == 3

\* the emptiness test of the description without strip() (mutant)
description_too_short_nostrip(tx) ==
    LET description == Get(tx, "description", EmptyStr)
    IN  description = EmptyStr \/ Len(description) < MinDescriptionLen

\* not description or len(str(description).strip()) < 3
description_too_short(tx) ==
    LET description == Get(tx, "description", EmptyStr)
    IN  description = EmptyStr \/ Len(Strip(description)) < MinDescriptionLen

\* the checks that precede the early return: required fields, and amount or
\* debit/credit
missing_field_errors(tx) ==
    (IF "date" \notin tx.has THEN <<"Missing required field: date">> ELSE <<>>)
      \o (IF "description" \notin tx.has
          THEN <<"Missing required field: description">> ELSE <<>>)
      \o (IF {"amount", "debit", "credit"} \cap tx.has = {}
          THEN <<"Missing amount or debit/credit fields">> ELSE <<>>)

date_errors(tx) ==
    IF tx.date = EmptyDate THEN <<"Date is empty">> ELSE <<>>

date_warnings(tx) ==
    IF tx.date # EmptyDate /\ ~matches_date_format(tx.date)
    THEN <<"Date may not be in correct format">> ELSE <<>>

amount_errors(tx) ==
    IF "amount" \in tx.has /\ ~tx.amount.num THEN <<"Invalid amount">> ELSE <<>>

\* debit and float(debit) > 0
positive(tx, key) == key \in tx.has /\ tx[key] # 0 /\ tx[key] > 0

amount_warnings(tx) ==
    IF "amount" \in tx.has
    THEN IF ~tx.amount.num THEN <<>>
         ELSE IF tx.amount.v = 0 THEN <<"Amount is zero">>
         ELSE IF Abs(tx.amount.v) > LargeAmount THEN <<"unusually large amount">>
         ELSE <<>>
    ELSE IF "debit" \in tx.has \/ "credit" \in tx.has
    THEN IF ~positive(tx, "debit") /\ ~positive(tx, "credit")
         THEN <<"Both debit and credit are zero">> ELSE <<>>
    ELSE <<>>

description_errors(tx) ==
    IF description_too_short(tx)
    THEN <<"Description is too short or empty">> ELSE <<>>

\* validate_transaction(transaction): the ValidationResult.  The values of
\* debit and credit are numbers, as every extraction strategy emits them.
validate_transaction(tx) ==
    Let(missing_field_errors(tx), LAMBDA missing :
        IF missing # <<>>
        THEN [is_valid |-> FALSE, errors |-> missing, warnings |-> <<>>]
        ELSE
    Let2(date_errors(tx) \o amount_errors(tx) \o description_errors(tx),
         date_warnings(tx) \o amount_warnings(tx), LAMBDA errors, warnings :
        [is_valid |-> Len(errors) = 0, errors |-> errors, warnings |-> warnings]))

ValidateKeys == {"date", "description", "amount", "debit", "credit"}

ValidateDates == {EmptyDate, DMY(1, 1, 2024), ShortDMY(1, 1, 2024)}

ValidateDescs ==
    {EmptyStr, <<" ", " ", " ">>, <<"a", "b">>, <<" ", "a", "b", " ">>,
     <<"a", "b", "c">>, <<"S", "h", "o", "p">>}

ValidateAmounts ==
    {Num(0), Num(50000), Num(-50000), Num(LargeAmount), Num(LargeAmount + 1),
     NotANumber}

ValidateSides == {0, 10000}

\* the transactions of SpecValidate: every combination of present keys and of
\* the values above; the value of an absent key is a filler
ValidateDomain ==
    {[has |-> h, date |-> dt, description |-> ds, amount |-> a,
      debit |-> db, credit |-> cr] :
        h \in SUBSET ValidateKeys,
        dt \in ValidateDates, ds \in ValidateDescs, a \in ValidateAmounts,
        db \in ValidateSides, cr \in ValidateSides}

NoDraft == [has |-> {}]

NoResult == [is_valid |-> FALSE, errors |-> <<"not called">>, warnings |-> <<>>]

ValidateIdle == draft = NoDraft /\ vres = NoResult

\* an absent key has one filler value, so that a dict is one record
Canonical(tx) ==
    /\ "date" \notin tx.has => tx.date = EmptyDate
    /\ "description" \notin tx.has => tx.description = EmptyStr
    /\ "amount" \notin tx.has => tx.amount = Num(0)
    /\ "debit" \notin tx.has => tx.debit = 0
    /\ "credit" \notin tx.has => tx.credit = 0

-----------------------------------------------------------------------------
(* utils/formatting.py *)

\* the characters re.sub(r'[\u20b9$Rs?\s]', '', ..., re.IGNORECASE) removes;
\* "Rupee" stands for the one character U+20B9
CurrencyChars == {"Rupee", "$", "R", "r", "S", "s", "?"} \cup Whitespace

\* \s*(Cr|CR|Dr|DR)\b with IGNORECASE matched at p: the end of the match
drcr_suffix_at(s, p) ==
    Let(RunEnd(s, p, Whitespace), LAMBDA e :
        IF Lower(Slice(s, e, e + 2)) \in {<<"c", "r">>, <<"d", "r">>}
             /\ WordBoundary(s, e + 2)
        THEN e + 2 ELSE -1)

\* re.sub(r'\s*(Cr|CR|Dr|DR)\b', '', s, flags=re.IGNORECASE)
RECURSIVE remove_drcr_suffixes(_)
remove_drcr_suffixes(s) ==
    Let(Search(s, drcr_suffix_at), LAMBDA m :
        IF m = NoMatch THEN s
        ELSE Slice(s, 0, m.start) \o remove_drcr_suffixes(From(s, m.end)))

\* float(s) with an optional sign
signed_float_digits(s, digits) ==
    Let(python_float_digits(IF Ch(s, 0) \in {"-", "+"} THEN From(s, 1) ELSE s, digits),
        LAMBDA f :
        IF Ch(s, 0) = "-" THEN [num |-> f.num, v |-> 0 - f.v] ELSE f)

signed_float(s) == signed_float_digits(s, 2)

\* the commas stay where they are (mutant)
commas_kept(amount_str) == amount_str

\* the commas of the integer part are removed: parts[0].replace(',', '') and
\* f"{integer_part}.{parts[1]}", or amount_str.replace(',', '') without a point
integer_commas_removed(amount_str) ==
    Let(Split(amount_str, "."), LAMBDA parts :
        IF Contains(amount_str, <<".">>)
        THEN Remove(parts[1], ",") \o <<".">> \o parts[2]
        ELSE Remove(amount_str, ","))

\* parse_amount(amount_str) of a string, in units of 10^-digits; 0.0 when
\* float() fails
parse_amount_digits(amount_str, digits) ==
    Let(SelectSeq(Strip(amount_str), LAMBDA c : c \notin CurrencyChars), LAMBDA bare :
    Let(Lower(bare), LAMBDA bare_lower :
    Let2(keyword_in_line(bare_lower, <<"c", "r">>),
         keyword_in_line(bare_lower, <<"d", "r">>), LAMBDA has_cr, has_dr :
    Let(Strip(remove_drcr_suffixes(bare)), LAMBDA unmarked :
    Let(signed_float_digits(integer_commas_removed(unmarked), digits), LAMBDA result :
        IF ~result.num THEN 0
        ELSE IF has_dr /\ ~has_cr THEN 0 - result.v
        ELSE result.v)))))

\* parse_amount(amount_str) in cents
parse_amount(amount_str) == parse_amount_digits(amount_str, 2)

\* f"{n:,}" of the decimal digits of n
RECURSIVE group_thousands(_)
group_thousands(digits_str) ==
    IF Len(digits_str) <= 3 THEN digits_str
    ELSE group_thousands(Slice(digits_str, 0, Len(digits_str) - 3))
           \o <<",">> \o From(digits_str, Len(digits_str) - 3)

\* round(x) of x = n / d, halves to the even neighbour
round_half_even(n, d) ==
    IF 2 * (n % d) < d THEN n \div d
    ELSE IF 2 * (n % d) > d THEN n \div d + 1
    ELSE IF (n \div d) % 2 = 0 THEN n \div d ELSE n \div d + 1

\* format_amount(amount) with currency "INR", the amount in units of
\* 10^-digits
format_amount(amount, digits) ==
    Let(Abs(amount), LAMBDA a :
    Let2(a \div (10 ^ digits),
         round_half_even((a % (10 ^ digits)) * 100, 10 ^ digits),
         LAMBDA integer_part, decimal_part :
        (IF amount < 0 THEN <<"-">> ELSE <<>>) \o <<"Rupee">>
          \o group_thousands(IntToStr(integer_part)) \o <<".">>
          \o Zfill(IntToStr(decimal_part), 2)))

\* str(x) of a float given in cents: '500.0', '500.5', '500.25'
float_str(cents) ==
    LET a == Abs(cents)
        frac == IF a % 100 = 0 THEN <<"0">>
                ELSE IF a % 10 = 0 THEN IntToStr((a % 100) \div 10)
                ELSE Zfill(IntToStr(a % 100), 2)
    IN  (IF cents < 0 THEN <<"-">> ELSE <<>>) \o IntToStr(a \div 100) \o <<".">> \o frac

\* the characters str.strip(' .,-_:;@#') removes
DescriptionTrim == {" ", ".", ",", "-", "_", ":", ";", "@", "#"}

\* the longest description kept
MaxDescriptionLen == 200

\* normalize_description(description)
normalize_description(description) ==
    Let(StripChars(JoinWords(Words(description)), DescriptionTrim), LAMBDA d :
        IF Len(d) > MaxDescriptionLen THEN SubSeq(d, 1, MaxDescriptionLen) ELSE d)

-----------------------------------------------------------------------------
(* formats/bank_statement.py: the drafts and _clean_description *)

\* the concatenation of a sequence of sequences
RECURSIVE Flatten(_)
Flatten(seqs) == IF seqs = <<>> THEN <<>> ELSE seqs[1] \o Flatten(Tail(seqs))

\* \s+\d{1,2}/\d{1,2}/\d{2,4}\s*$ matched at p
trailing_date_at(s, p) ==
    IF Ch(s, p) \notin Whitespace THEN -1 ELSE
    Let(date_ddmmyyyy_at(s, RunEnd(s, p, Whitespace)), LAMBDA e :
        IF e >= 0 /\ RunEnd(s, e, Whitespace) = Len(s) THEN Len(s) ELSE -1)

\* \d+(?:\.\d+)? matched at p: the end of the match, -1 without
number_at(s, p) ==
    Let(RunEnd(s, p, Digits), LAMBDA a :
        IF a = p THEN -1
        ELSE IF Ch(s, a) = "." /\ Ch(s, a + 1) \in Digits
        THEN RunEnd(s, a + 1, Digits)
        ELSE a)

\* (?:\s+\d+(?:\.\d+)?){k}\s*$ matched at p
RECURSIVE numbers_to_end(_, _, _)
numbers_to_end(s, p, k) ==
    IF k = 0 THEN RunEnd(s, p, Whitespace) = Len(s)
    ELSE /\ Ch(s, p) \in Whitespace
         /\ Let(number_at(s, RunEnd(s, p, Whitespace)), LAMBDA e :
                e >= 0 /\ numbers_to_end(s, e, k - 1))

\* \s+\d+(?:\.\d+)?\s*$ matched at p
trailing_number_at(s, p) == IF numbers_to_end(s, p, 1) THEN Len(s) ELSE -1

\* \s+\d+(?:\.\d+)?\s+\d+(?:\.\d+)?\s*$ matched at p
trailing_two_numbers_at(s, p) == IF numbers_to_end(s, p, 2) THEN Len(s) ELSE -1

\* \s+\d+(?:\.\d+)?\s+\d+(?:\.\d+)?(?:\s+\d+(?:\.\d+)?)?\s*$ matched at p
trailing_numbers_at(s, p) ==
    IF numbers_to_end(s, p, 3) \/ numbers_to_end(s, p, 2) THEN Len(s) ELSE -1

\* re.sub(pattern, '', s) for a pattern anchored at the end of s
remove_match(s, MatchAt(_, _)) ==
    Let(Search(s, MatchAt), LAMBDA m :
        IF m = NoMatch THEN s ELSE Slice(s, 0, m.start) \o From(s, m.end))

\* BankStatementParser._clean_description(description)
clean_description(description) ==
    IF description = <<>> THEN <<>> ELSE
    Let(StripChars(
            remove_match(
                remove_match(
                    remove_match(
                        remove_match(JoinWords(Words(description)), trailing_date_at),
                        trailing_number_at),
                    trailing_two_numbers_at),
                trailing_numbers_at),
            DescriptionTrim), LAMBDA d :
        IF Len(d) > MaxDescriptionLen THEN SubSeq(d, 1, MaxDescriptionLen) ELSE d)

\* the keys of the dict a strategy of BankStatementParser emits
DraftKeys ==
    {"date", "description", "narration", "value_date", "debit", "credit",
     "balance", "reference", "card_no", "type", "merchant"}

\* the dict of a strategy that emits no 'amount' key.  literal_zero is the
\* set of keys whose value is the int 0 and not the float 0.0: the two differ
\* in an f-string.  The field amount is the filler of the absent key.
Draft(date, description, debit, credit, balance, reference, type, literal_zero) ==
    [has |-> DraftKeys, date |-> date, description |-> description,
     narration |-> description, value_date |-> date, debit |-> debit,
     credit |-> credit, balance |-> balance, reference |-> reference,
     card_no |-> <<>>, type |-> type, merchant |-> description,
     amount |-> Num(0), literal_zero |-> literal_zero]

\* the two types the wrong way round (mutant)
type_of_swapped(is_credit) == IF is_credit THEN "debit" ELSE "credit"

\* 'credit' if is_credit else 'debit'
type_of(is_credit) == IF is_credit THEN "credit" ELSE "debit"

\* the dict _parse_transaction_group builds from a TransactionMatch
match_to_draft(match) ==
    Draft(match.date, match.description,
          IF ~match.is_credit THEN match.amount ELSE 0,
          IF match.is_credit THEN match.amount ELSE 0,
          0, <<>>, type_of(match.is_credit),
          IF match.is_credit THEN {"debit"} ELSE {"credit"})

\* _convert_generic_match_to_transaction(match): the same dict with the key
\* 'amount'
convert_generic_match_to_transaction(match) ==
    [match_to_draft(match) EXCEPT !.has = DraftKeys \cup {"amount"},
                                  !.amount = Num(match.amount)]

-----------------------------------------------------------------------------
(* Stage 1: _has_csv_structure and _parse_csv *)

HeaderFields == <<"date", "description", "debit", "credit", "balance", "reference">>

\* a column mapping: the index of the column of each field, -1 for a field
\* that is not a key of the dict
NoColumns ==
    [date |-> -1, description |-> -1, debit |-> -1, credit |-> -1,
     balance |-> -1, reference |-> -1]

\* header_keywords of _has_csv_structure
CsvStructureKeywords ==
    {<<"d", "a", "t", "e">>, <<"d", "e", "s", "c", "r", "i", "p", "t", "i", "o", "n">>, <<"n", "a", "r", "r", "a", "t", "i", "o", "n">>, <<"d", "e", "b", "i", "t">>, <<"c", "r", "e", "d", "i", "t">>, <<"a", "m", "o", "u", "n", "t">>,
     <<"b", "a", "l", "a", "n", "c", "e">>, <<"r", "e", "f", "e", "r", "e", "n", "c", "e">>, <<"v", "a", "l", "u", "e">>}

\* the lines of lines[:5] a header is looked for in
CsvStructureLines == 5

\* the least number of comma-separated parts of a header line
CsvStructureParts == 4

\* the least number of keywords of a header line
HeaderKeywordCount == 3

\* _has_csv_structure(text)
has_csv_structure(text) ==
    \E i \in 1..Min(CsvStructureLines, Len(text)) :
        /\ Strip(text[i]) # <<>>
        /\ Len(Split(text[i], ",")) >= CsvStructureParts
        /\ Cardinality({kw \in CsvStructureKeywords : Contains(Lower(text[i]), kw)})
             >= HeaderKeywordCount

\* header_keywords of _parse_csv
CsvHeaderKeywords ==
    [date |-> <<<<"d", "a", "t", "e">>, <<"p", "o", "s", "t", "i", "n", "g">>, <<"t", "r", "a", "n", "s", "a", "c", "t", "i", "o", "n">>, <<"d", "t">>>>,
     description |-> <<<<"d", "e", "s", "c", "r", "i", "p", "t", "i", "o", "n">>, <<"n", "a", "r", "r", "a", "t", "i", "o", "n">>, <<"m", "e", "r", "c", "h", "a", "n", "t">>, <<"p", "a", "y", "e", "e">>>>,
     debit |-> <<<<"d", "e", "b", "i", "t">>, <<"w", "i", "t", "h", "d", "r", "a", "w", "a", "l">>, <<"d", "r">>, <<"a", "m", "o", "u", "n", "t">>>>,
     credit |-> <<<<"c", "r", "e", "d", "i", "t">>, <<"d", "e", "p", "o", "s", "i", "t">>, <<"c", "r">>>>,
     balance |-> <<<<"b", "a", "l", "a", "n", "c", "e">>, <<"c", "l", "o", "s", "i", "n", "g">>>>,
     reference |-> <<<<"r", "e", "f", "e", "r", "e", "n", "c", "e">>, <<"r", "e", "f">>, <<"c", "h", "q">>, <<"t", "x", "n">>>>]

\* the first variation of the field that occurs in the line, None without
csv_field_variation(line_lower, field) ==
    Let(CsvHeaderKeywords[field], LAMBDA variations :
    Let({k \in 1..Len(variations) : Contains(line_lower, variations[k])}, LAMBDA hits :
        IF hits = {} THEN None
        ELSE variations[CHOOSE k \in hits : \A j \in hits : k <= j]))

\* the index of the first part that holds var, -1 without
first_part_with(parts, var) ==
    Let({j \in 1..Len(parts) : Contains(Lower(parts[j]), var)}, LAMBDA hits :
        IF hits = {} THEN -1 ELSE (CHOOSE j \in hits : \A k \in hits : j <= k) - 1)

\* `for field_name, variations in header_keywords.items()` on one line, from
\* the f-th field on: a field is mapped to the column of its variation unless
\* it is mapped already
RECURSIVE csv_map_line(_, _, _)
csv_map_field(line, field, column_mapping) ==
    Let(csv_field_variation(Lower(line), field), LAMBDA var :
    Let(first_part_with(Split(line, ","), var), LAMBDA j :
        IF var # None /\ j >= 0 /\ column_mapping[field] < 0
        THEN [column_mapping EXCEPT ![field] = j]
        ELSE column_mapping))

csv_map_line(line, f, column_mapping) ==
    IF f > Len(HeaderFields) THEN column_mapping
    ELSE csv_map_line(line, f + 1, csv_map_field(line, HeaderFields[f], column_mapping))

\* len(found_keywords) of one line
csv_found_keywords(line) ==
    Cardinality({f \in 1..Len(HeaderFields) :
                     csv_field_variation(Lower(line), HeaderFields[f]) # None})

\* the search for the header line of _parse_csv: column_mapping collects the
\* columns over the lines read
RECURSIVE csv_find_header(_, _, _)
csv_find_header(lines, i, column_mapping) ==
    IF i > Len(lines) THEN [header_idx |-> -1, column_mapping |-> column_mapping] ELSE
    Let(csv_map_line(lines[i], 1, column_mapping), LAMBDA mapped :
        IF csv_found_keywords(lines[i]) >= HeaderKeywordCount
        THEN [header_idx |-> i - 1, column_mapping |-> mapped]
        ELSE csv_find_header(lines, i + 1, mapped))

\* parts[column_mapping[field]].strip() if the field is mapped and the row
\* reaches its column, else ''
cell(parts, column_mapping, field) ==
    IF column_mapping[field] >= 0 /\ Len(parts) > column_mapping[field]
    THEN Strip(parts[column_mapping[field] + 1])
    ELSE <<>>

\* the keywords that mark a credit in a narration
CreditKeywords == {<<"c", "r">>, <<"c", "r", "e", "d", "i", "t">>, <<"d", "e", "p", "o", "s", "i", "t">>, <<"n", "e", "f", "t">>, <<"r", "t", "g", "s">>, <<"i", "m", "p", "s">>}

has_credit_keyword(narration) ==
    \E keyword \in CreditKeywords : Contains(Lower(narration), keyword)

\* the body of the loop over the data rows of _parse_csv: the dict appended
\* for the row, NoTransaction for a row that is skipped
csv_row(line, column_mapping) ==
    Let(Split(line, ","), LAMBDA parts :
    Let2(cell(parts, column_mapping, "date"),
         cell(parts, column_mapping, "description"), LAMBDA date_str, narration :
    Let(<<cell(parts, column_mapping, "debit"),
          cell(parts, column_mapping, "credit"),
          cell(parts, column_mapping, "balance")>>, LAMBDA strs :
        IF date_str = <<>> \/ (strs[1] = <<>> /\ strs[2] = <<>>)
        THEN NoTransaction ELSE
    Let(List([k \in 1..3 |-> IF strs[k] # <<>> THEN parse_amount(strs[k]) ELSE 0]),
        LAMBDA amounts :
    Let(has_credit_keyword(narration), LAMBDA is_credit :
    Let(IF amounts[1] > 0 /\ amounts[2] = 0 THEN is_credit
        ELSE IF amounts[2] > 0 /\ amounts[1] = 0 THEN FALSE
        ELSE strs[1] # <<>> /\ strs[2] = <<>> /\ is_credit, LAMBDA swap :
    Let2(IF swap THEN 0 ELSE amounts[1],
         IF swap THEN amounts[1] ELSE amounts[2], LAMBDA debit, credit :
    Let(parse_date(date_str), LAMBDA date_normalized :
        IF date_normalized \in {None, <<>>} THEN NoTransaction
        ELSE IF debit = 0 /\ credit = 0 THEN NoTransaction
        ELSE Draft(date_normalized, clean_description(narration), debit, credit,
                   amounts[3], <<>>, type_of(credit > 0), {})))))))))

\* _parse_csv(text)
parse_csv(text) ==
    Let(csv_find_header(text, 1, NoColumns), LAMBDA header :
        Flatten([i \in 1..Len(text) |->
            IF i - 1 <= header.header_idx \/ Strip(text[i]) = <<>> THEN <<>>
            ELSE Let(csv_row(text[i], header.column_mapping), LAMBDA row :
                     IF row = NoTransaction THEN <<>> ELSE <<row>>)]))

-----------------------------------------------------------------------------
(* formats/bank_statement.py: _is_credit_transaction and                     *)
(* _extract_transaction_amounts.  No method of the package calls them.       *)

\* credit_keywords of _is_credit_transaction
GapCreditKeywords ==
    {<<"C", "R">>,
     <<"C", "R", "E", "D">>,
     <<"C", "R", "E", "D", "I", "T">>,
     <<"F", "T", "-">>,
     <<"D", "E", "P", "O", "S", "I", "T">>,
     <<"C", "R", "E", "D", "C", "L", "U", "B">>,
     <<"C", "R", "E", "D", ".", "C">>,
     <<"N", "E", "F", "T">>,
     <<"R", "T", "G", "S">>,
     <<"I", "M", "P", "S">>,
     <<"T", "R", "A", "N", "S", "F", "E", "R", " ", "I", "N">>,
     <<"C", "R", "E", "D", "I", "T", "E", "D">>}

\* a gap of at least this many characters marks the deposit column
CreditGap == 5

\* a gap of at most this many characters is collapsed text
CollapsedGap == 2

\* re.sub(r'\s{2,}', ' ', s) from offset p on
RECURSIVE collapse_whitespace(_, _)
collapse_whitespace(s, p) ==
    IF p >= Len(s) THEN <<>>
    ELSE IF Ch(s, p) \notin Whitespace
    THEN <<Ch(s, p)>> \o collapse_whitespace(s, p + 1)
    ELSE Let(RunEnd(s, p, Whitespace), LAMBDA e :
             (IF e - p >= 2 THEN <<" ">> ELSE <<Ch(s, p)>>)
               \o collapse_whitespace(s, e))

\* _is_credit_transaction(self, line, value_date_match, after_value_date)
is_credit_transaction(line, value_date_match, after_value_date) ==
    Let(amount_finditer(after_value_date, 0), LAMBDA amounts :
        IF Len(amounts) < 2 THEN FALSE ELSE
    Let2(Find(after_value_date, amounts[1].group1) + Len(amounts[1].group1),
         Find(after_value_date, amounts[Len(amounts)].group1),
         LAMBDA first_amt_end, balance_start :
    Let(Slice(after_value_date, first_amt_end, balance_start), LAMBDA gap :
        IF Len(gap) >= CreditGap THEN TRUE
        ELSE IF Len(gap) <= CollapsedGap
        THEN Let(Upper(collapse_whitespace(
                     Strip(Slice(line, 0, value_date_match.start)), 0)),
                 LAMBDA desc_upper :
                 \E kw \in GapCreditKeywords : Contains(desc_upper, kw))
        ELSE FALSE)))

\* _extract_transaction_amounts(self, after_value_date, is_credit): the tuple
\* (withdrawal, deposit), in cents
extract_transaction_amounts(after_value_date, is_credit) ==
    Let(amount_finditer(after_value_date, 0), LAMBDA amounts :
        IF Len(amounts) < 2 THEN <<0, 0>> ELSE
    Let(parse_amount(amounts[1].group1), LAMBDA first_amount :
        IF is_credit THEN <<0, first_amount>> ELSE <<first_amount, 0>>))

-----------------------------------------------------------------------------
(* Stage 2: _parse_adaptive and its three strategies *)

\* delimiters of _detect_delimiter, in the order of the dict
Delimiters == <<",", "\t", "|", ";">>

\* the lines of lines[:5] the delimiters are counted in
DelimiterSampleLines == 5

\* BankStatementParser._detect_delimiter(lines): the delimiter with the
\* highest count, the first of them on a tie, ',' when none occurs
detect_delimiter(lines) ==
    IF lines = <<>> THEN "," ELSE
    Let(Flatten(SubSeq(lines, 1, Min(DelimiterSampleLines, Len(lines)))), LAMBDA sample :
    Let(List([k \in 1..Len(Delimiters) |-> Count(sample, Delimiters[k])]), LAMBDA counts :
    Let(CHOOSE k \in 1..Len(Delimiters) :
            /\ \A j \in 1..Len(Delimiters) : counts[j] <= counts[k]
            /\ \A j \in 1..(k - 1) : counts[j] < counts[k], LAMBDA best :
        IF counts[best] > 0 THEN Delimiters[best] ELSE ",")))

\* header_keywords of BankStatementParser._map_columns
ColumnHeaderKeywords ==
    [date |-> {<<"d", "a", "t", "e">>, <<"p", "o", "s", "t", "i", "n", "g">>, <<"t", "r", "a", "n", "s", "a", "c", "t", "i", "o", "n">>, <<"d", "t">>},
     description |-> {<<"d", "e", "s", "c", "r", "i", "p", "t", "i", "o", "n">>, <<"n", "a", "r", "r", "a", "t", "i", "o", "n">>, <<"m", "e", "r", "c", "h", "a", "n", "t">>, <<"p", "a", "y", "e", "e">>,
                      <<"p", "a", "r", "t", "i", "c", "u", "l", "a", "r", "s">>},
     debit |-> {<<"d", "e", "b", "i", "t">>, <<"w", "i", "t", "h", "d", "r", "a", "w", "a", "l">>, <<"d", "r">>, <<"a", "m", "o", "u", "n", "t">>},
     credit |-> {<<"c", "r", "e", "d", "i", "t">>, <<"d", "e", "p", "o", "s", "i", "t">>, <<"c", "r">>},
     balance |-> {<<"b", "a", "l", "a", "n", "c", "e">>, <<"c", "l", "o", "s", "i", "n", "g">>, <<"c", "u", "r", "r", "e", "n", "t">>},
     reference |-> {<<"r", "e", "f", "e", "r", "e", "n", "c", "e">>, <<"r", "e", "f">>, <<"c", "h", "q">>, <<"t", "x", "n">>, <<"c", "h", "e", "q", "u", "e">>}]

\* `for j, part in enumerate(parts)` of _map_columns, from the j-th part on:
\* the part is given to the first field, in the order of the dict, that has a
\* variation in the part and no column yet
RECURSIVE map_header_parts(_, _, _, _)
map_header_parts(parts, j, column_mapping, found_keywords) ==
    IF j > Len(parts)
    THEN [column_mapping |-> column_mapping, found_keywords |-> found_keywords]
    ELSE
    Let(Lower(Strip(parts[j])), LAMBDA part_lower :
    Let({f \in 1..Len(HeaderFields) :
             /\ \E var \in ColumnHeaderKeywords[HeaderFields[f]] :
                    Contains(part_lower, var)
             /\ column_mapping[HeaderFields[f]] < 0}, LAMBDA free :
        IF free = {}
        THEN map_header_parts(parts, j + 1, column_mapping, found_keywords)
        ELSE map_header_parts(parts, j + 1,
                 [column_mapping EXCEPT
                      ![HeaderFields[CHOOSE f \in free : \A g \in free : f <= g]]
                          = j - 1],
                 found_keywords + 1)))

\* the lines of lines[:3] _map_columns looks for the header in
HeaderSearchLines == 3

\* BankStatementParser._map_columns(lines, delimiter), from the i-th line on
RECURSIVE map_columns(_, _, _, _)
map_columns(lines, delimiter, i, column_mapping) ==
    IF i > Min(HeaderSearchLines, Len(lines)) THEN column_mapping
    ELSE IF Strip(lines[i]) = <<>>
    THEN map_columns(lines, delimiter, i + 1, column_mapping)
    ELSE
    Let(map_header_parts(Split(lines[i], delimiter), 1, column_mapping, 0), LAMBDA r :
        IF r.found_keywords >= HeaderKeywordCount THEN r.column_mapping
        ELSE map_columns(lines, delimiter, i + 1, r.column_mapping))

\* header_keywords of _find_data_start
DataStartKeywords == {<<"d", "a", "t", "e">>, <<"d", "e", "s", "c", "r", "i", "p", "t", "i", "o", "n">>, <<"d", "e", "b", "i", "t">>, <<"c", "r", "e", "d", "i", "t">>, <<"b", "a", "l", "a", "n", "c", "e">>}

\* _find_data_start(lines, header_mapping): the index of the line after the
\* first line that holds two of the keywords, 1 without such a line
find_data_start(lines, header_mapping) ==
    IF lines = <<>> \/ header_mapping = NoColumns THEN 0 ELSE
    Let({i \in 1..Len(lines) :
             Cardinality({kw \in DataStartKeywords : Contains(Lower(lines[i]), kw)}) >= 2},
        LAMBDA headers :
        IF headers = {} THEN 1
        ELSE Min(CHOOSE i \in headers : \A k \in headers : i <= k, Len(lines) - 1))

\* _split_line(line, delimiter)
split_line(line, delimiter) ==
    IF line = <<>> THEN <<>> ELSE
    Let(Split(line, delimiter), LAMBDA parts :
        List([k \in 1..Len(parts) |-> Strip(parts[k])]))

\* _extract_transaction_from_columns(parts, header_mapping, context_lines)
extract_transaction_from_columns(parts, header_mapping) ==
    IF parts = <<>> \/ header_mapping = NoColumns THEN NoTransaction ELSE
    Let(cell(parts, header_mapping, "date"), LAMBDA date_str :
    Let(<<cell(parts, header_mapping, "debit"),
          cell(parts, header_mapping, "credit"),
          cell(parts, header_mapping, "balance")>>, LAMBDA strs :
    Let(IF date_str # <<>> THEN parse_date(date_str) ELSE <<>>, LAMBDA date_normalized :
        IF date_normalized \in {None, <<>>} THEN NoTransaction ELSE
    Let(List([k \in 1..3 |-> IF strs[k] # <<>> THEN parse_amount(strs[k]) ELSE 0]),
        LAMBDA amounts :
        IF amounts[1] = 0 /\ amounts[2] = 0 THEN NoTransaction
        ELSE Draft(date_normalized,
                   clean_description(cell(parts, header_mapping, "description")),
                   amounts[1], amounts[2], amounts[3],
                   cell(parts, header_mapping, "reference"),
                   type_of(amounts[2] > 0), {})))))

\* the body of the loop over the data rows of _parse_column_based: the dict
\* of the row, NoTransaction for a row that is skipped
column_row(line, delimiter, header_mapping) ==
    Let(Strip(line), LAMBDA stripped :
        IF stripped = <<>> \/ is_skip_line(stripped) THEN NoTransaction
        ELSE extract_transaction_from_columns(split_line(stripped, delimiter),
                                              header_mapping))

\* _parse_column_based(lines): the dicts that pass self._validate_transaction,
\* and what the calls of self._validate_transaction add to self.errors and
\* self.warnings
parse_column_based(lines) ==
    Let(detect_delimiter(lines), LAMBDA delimiter :
    Let(map_columns(lines, delimiter, 1, NoColumns), LAMBDA header_mapping :
    Let(find_data_start(lines, header_mapping), LAMBDA data_start :
    Let(List([i \in 1..Len(lines) |->
                  IF header_mapping = NoColumns \/ i <= data_start THEN NoTransaction
                  ELSE column_row(lines[i], delimiter, header_mapping)]), LAMBDA rows :
    Let(List([i \in 1..Len(lines) |->
                  IF rows[i] = NoTransaction THEN NoResult
                  ELSE validate_transaction(rows[i])]), LAMBDA results :
        [transactions |->
             Flatten([i \in 1..Len(lines) |->
                 IF rows[i] # NoTransaction /\ results[i].is_valid
                 THEN <<rows[i]>> ELSE <<>>]),
         errors |->
             Flatten([i \in 1..Len(lines) |->
                 IF rows[i] # NoTransaction /\ ~results[i].is_valid
                 THEN results[i].errors ELSE <<>>]),
         warnings |->
             Flatten([i \in 1..Len(lines) |->
                 IF rows[i] # NoTransaction /\ ~results[i].is_valid
                 THEN results[i].warnings ELSE <<>>])])))))

\* re.search(r'(\d{1,2} [A-Za-z]{3} \d{4})', line) matched at p
indian_date_at(s, p) ==
    Let(RunEnd(s, p, Digits), LAMBDA a :
        IF /\ a - p \in 1..2
           /\ Ch(s, a) = " "
           /\ RunEnd(s, a + 1, Letters) = a + 4
           /\ Ch(s, a + 4) = " "
           /\ Len(Slice(s, a + 5, a + 9)) = 4
           /\ IsDigits(Slice(s, a + 5, a + 9))
        THEN a + 9 ELSE -1)

\* r'INR ([\d,]+\.\d{2})' matched at p
inr_amount_at(s, p) ==
    Let(RunEnd(s, p + 4, AmountChars), LAMBDA e :
        IF /\ Slice(s, p, p + 4) = <<"I", "N", "R", " ">>
           /\ e > p + 4
           /\ Ch(s, e) = "."
           /\ Len(Slice(s, e + 1, e + 3)) = 2
           /\ IsDigits(Slice(s, e + 1, e + 3))
        THEN e + 3 ELSE -1)

indian_is_credit(upper) ==
    \/ Contains(upper, <<"C", "R", "E", "D", "I", "T", " ", "I", "N", "T", "E", "R", "E", "S", "T">>)
    \/ Contains(upper, <<"I", "N", "T", "E", "R", "E", "S", "T">>) /\ Contains(upper, <<"C", "R", "E", "D", "I", "T">>)
    \/ Contains(upper, <<"N", "E", "F", "T">>)
    \/ Contains(upper, <<"R", "T", "G", "S">>)
    \/ Contains(upper, <<"I", "M", "P", "S">>)
    \/ Contains(upper, <<"T", "R", "A", "N", "S", "F", "E", "R", " ", "I", "N">>)

\* _parse_indian_bank_line(line).  Of the four branches on 'CREDIT INTEREST',
\* the dash and is_credit, the first and the third assign the first amount to
\* the credit, the second and the fourth to the debit: the amount is the
\* credit exactly when is_credit holds.
parse_indian_bank_line(line) ==
    Let(Search(line, indian_date_at), LAMBDA date_match :
        IF date_match = NoMatch THEN NoTransaction ELSE
    Let(parse_date(Slice(line, date_match.start, date_match.end)), LAMBDA date_normalized :
        IF date_normalized \in {None, <<>>} THEN NoTransaction ELSE
    Let(Strip(From(line, date_match.end)), LAMBDA after_date :
    Let(Search(after_date, inr_amount_at), LAMBDA amount_match :
        IF amount_match = NoMatch THEN NoTransaction ELSE
    Let(Find(after_date, <<"I", "N", "R">>), LAMBDA description_end :
    Let(IF description_end # -1 THEN Strip(Slice(after_date, 0, description_end))
        ELSE after_date, LAMBDA description :
    Let(parse_amount(Slice(after_date, amount_match.start + 4, amount_match.end)),
        LAMBDA first_amount :
    Let(indian_is_credit(Upper(line)), LAMBDA is_credit :
        Draft(date_normalized, clean_description(description),
              IF is_credit THEN 0 ELSE first_amount,
              IF is_credit THEN first_amount ELSE 0,
              0, <<>>,
              type_of((IF is_credit THEN first_amount ELSE 0) > 0), {})))))))))

\* the header line of the Indian bank format
IndianHeader == <<"D", "a", "t", "e", " ", "T", "r", "a", "n", "s", "a", "c", "t", "i", "o", "n", " ", "D", "e", "t", "a", "i", "l", "s", " ", "D", "e", "b", "i", "t", "s", " ", "C", "r", "e", "d", "i", "t", "s", " ", "B", "a", "l", "a", "n", "c", "e">>

\* the terms of a summary line
SummaryTerms ==
    {<<"t", "o", "t", "a", "l">>, <<"e", "n", "d", "i", "n", "g", " ", "b", "a", "l", "a", "n", "c", "e">>, <<"o", "p", "e", "n", "i", "n", "g", " ", "b", "a", "l", "a", "n", "c", "e">>, <<"a", "c", "c", "o", "u", "n", "t", " ", "s", "u", "m", "m", "a", "r", "y">>}

\* the least length of a line of the Indian bank format
IndianMinLineLen == 10

\* _parse_indian_bank_format(lines)
parse_indian_bank_format(lines) ==
    Let({i \in 1..Len(lines) : Contains(lines[i], IndianHeader)}, LAMBDA headers :
        IF headers = {} THEN <<>> ELSE
    Let(CHOOSE i \in headers : \A k \in headers : i <= k, LAMBDA header_line :
        Flatten([i \in 1..Len(lines) |->
            IF i <= header_line THEN <<>> ELSE
            Let(Strip(lines[i]), LAMBDA line :
                IF Len(line) < IndianMinLineLen THEN <<>>
                ELSE IF \E term \in SummaryTerms : Contains(Lower(line), term) THEN <<>>
                ELSE Let(parse_indian_bank_line(line), LAMBDA row :
                         IF row = NoTransaction THEN <<>> ELSE <<row>>))])))

\* the class [A-Z0-9]
UpperAlnum == {UpperLetters[i] : i \in 1..26} \cup Digits

\* the least length of a reference number
MinReferenceLen == 6

\* re.search(r'[A-Z0-9]{6,}', line) matched at p
reference_at(s, p) ==
    Let(RunEnd(s, p, UpperAlnum), LAMBDA e :
        IF e - p >= MinReferenceLen THEN e ELSE -1)

\* the lines after the main line a reference number is looked for in
ReferenceLookahead == 2

\* the loop of _parse_transaction_group over the lines that follow the main
\* line: the reference number of the last of them that names one
RECURSIVE find_reference(_, _, _, _)
find_reference(lines, i, stop, reference) ==
    IF i >= stop THEN reference ELSE
    Let(Strip(lines[i + 1]), LAMBDA line :
    Let(Search(line, reference_at), LAMBDA ref_match :
        find_reference(lines, i + 1, stop,
            IF Len(line) >= 5 /\ Contains(Lower(line), <<"r", "e", "f">>)
                 /\ ref_match # NoMatch
            THEN Slice(line, ref_match.start, ref_match.end)
            ELSE reference)))

\* _parse_transaction_group(lines, start_index): a dict, None (NoTransaction)
\* or the exception of parse_generic_line
parse_transaction_group(lines, start_index) ==
    IF start_index >= Len(lines) THEN NoTransaction ELSE
    Let(Strip(lines[start_index + 1]), LAMBDA main_line :
        IF main_line = <<>> \/ is_skip_line(main_line) THEN NoTransaction ELSE
    Let(parse_generic_line(main_line), LAMBDA match :
        IF match = AttributeError THEN AttributeError
        ELSE IF match = NoTransaction THEN NoTransaction
        ELSE [match_to_draft(match) EXCEPT !.reference =
                 find_reference(lines, start_index + 1,
                     Min(start_index + 1 + ReferenceLookahead, Len(lines)), <<>>)]))

\* a line shorter than this counts as the continuation of a transaction
ContinuationLen == 20

\* the lines after the main line _count_transaction_lines looks at
CountLookahead == 3

\* the loop of _count_transaction_lines from the line of index i on: the
\* count, or the exception of parse_generic_line
RECURSIVE count_lines_from(_, _, _, _)
count_lines_from(lines, i, stop, count) ==
    IF i >= stop THEN [raised |-> FALSE, count |-> count] ELSE
    Let(Strip(lines[i + 1]), LAMBDA line :
        IF line = <<>> THEN count_lines_from(lines, i + 1, stop, count)
        ELSE IF DATE_PATTERN_DDMMYYYY(line) # NoMatch
        THEN [raised |-> FALSE, count |-> count]
        ELSE IF Len(line) < ContinuationLen \/ Ch(line, 0) \in Whitespace
        THEN count_lines_from(lines, i + 1, stop, count + 1)
        ELSE
    Let(parse_generic_line(line), LAMBDA match :
        IF match = AttributeError THEN [raised |-> TRUE, count |-> count]
        ELSE IF match # NoTransaction THEN [raised |-> FALSE, count |-> count]
        ELSE count_lines_from(lines, i + 1, stop, count + 1)))

\* _count_transaction_lines(lines, start_index)
count_transaction_lines(lines, start_index) ==
    IF start_index >= Len(lines) THEN [raised |-> FALSE, count |-> 0]
    ELSE count_lines_from(lines, start_index + 1,
                          Min(start_index + 1 + CountLookahead, Len(lines)), 1)

\* the result of a strategy that raised
Raised == [raised |-> TRUE, transactions |-> <<>>]

Returned(transactions) == [raised |-> FALSE, transactions |-> transactions]

\* the while loop of _parse_multiline_transactions from index i on
RECURSIVE multiline_from(_, _, _)
multiline_from(lines, i, transactions) ==
    IF i >= Len(lines) - 1 THEN Returned(transactions) ELSE
    Let(parse_transaction_group(lines, i), LAMBDA tx :
        IF tx = AttributeError THEN Raised
        ELSE IF tx = NoTransaction THEN multiline_from(lines, i + 1, transactions)
        ELSE
    Let(count_transaction_lines(lines, i), LAMBDA n :
        IF n.raised THEN Raised
        ELSE multiline_from(lines, i + n.count, Append(transactions, tx))))

\* _parse_multiline_transactions(lines)
parse_multiline_transactions(lines) ==
    Let(parse_indian_bank_format(lines), LAMBDA indian :
        IF indian # <<>> THEN Returned(indian) ELSE multiline_from(lines, 0, <<>>))

\* the least length of a line _parse_single_line_transactions reads
SingleLineMinLen == 20

\* _parse_single_line_transactions(lines)
parse_single_line_transactions(lines) ==
    Let(List([i \in 1..Len(lines) |->
                 IF ~is_skip_line(lines[i]) /\ Len(lines[i]) >= SingleLineMinLen
                 THEN parse_generic_line(lines[i])
                 ELSE NoTransaction]), LAMBDA matches :
        IF \E i \in 1..Len(matches) : matches[i] = AttributeError
        THEN Raised
        ELSE Returned(Flatten([i \in 1..Len(matches) |->
                 IF matches[i] # NoTransaction
                 THEN <<convert_generic_match_to_transaction(matches[i])>>
                 ELSE <<>>])))

\* f"{x}" of the value of the key: '0' for the int 0, str() of the float
\* otherwise
format_number(tx, key) ==
    IF key \in tx.literal_zero THEN <<"0">> ELSE float_str(tx[key])

\* the string _parse_adaptive hashes
tx_hash(tx) ==
    tx.date \o <<"-">> \o tx.description \o <<"-">> \o format_number(tx, "debit")
      \o <<"-">> \o format_number(tx, "credit")

\* `for tx in result` of _parse_adaptive: the dicts whose hash is new
RECURSIVE add_unique(_, _, _)
add_unique(transactions, result, k) ==
    IF k > Len(result) THEN transactions ELSE
    Let(tx_hash(result[k]), LAMBDA hash :
        add_unique(IF \E j \in 1..Len(transactions) : tx_hash(transactions[j]) = hash
                   THEN transactions ELSE Append(transactions, result[k]),
                   result, k + 1))

\* a strategy runs while fewer than this many transactions are found
EnoughTransactions == 20

\* one round of the loop over the strategies of _parse_adaptive: the
\* strategy runs while fewer than 20 transactions are collected, and a
\* strategy that raises adds nothing
try_strategy(transactions, result) ==
    IF Len(transactions) < EnoughTransactions /\ ~result.raised
    THEN add_unique(transactions, result.transactions, 1)
    ELSE transactions

\* the strategy is in the list of the strategies that ran when fewer than 20
\* transactions were collected before it
strategy_runs(strategy, transactions) ==
    IF Len(transactions) < EnoughTransactions THEN <<strategy>> ELSE <<>>

\* _parse_adaptive(text): the transactions, the strategies that ran in the
\* order of the loop, and what the strategies add to self.errors and
\* self.warnings.  A strategy that raises adds nothing.
parse_adaptive(text) ==
    Let(SelectSeq(List([i \in 1..Len(text) |-> Strip(text[i])]), LAMBDA l : l # <<>>),
        LAMBDA lines :
    Let(parse_column_based(lines), LAMBDA column :
    Let(add_unique(<<>>, column.transactions, 1), LAMBDA after_column :
    Let(try_strategy(after_column, parse_multiline_transactions(lines)), LAMBDA after_multiline :
        [transactions |->
             try_strategy(after_multiline, parse_single_line_transactions(lines)),
         strategies |-> strategy_runs("_parse_column_based", <<>>)
                          \o strategy_runs("_parse_multiline_transactions", after_column)
                          \o strategy_runs("_parse_single_line_transactions", after_multiline),
         errors |-> column.errors,
         warnings |-> column.warnings]))))

-----------------------------------------------------------------------------
(* Stages 3 and 4, and BankStatementParser.parse *)

\* _parse_with_ai(text): the environment holds neither OPENAI_KEY nor
\* GEMINI_API_KEY, and the method returns the empty list
parse_with_ai(text) == <<>>

\* re.sub(r'^[^\w]+|[^\w]+$', '', s)
strip_non_word(s) == StripChars(s, {s[i] : i \in 1..Len(s)} \ WordChars)

\* credit_keywords of _extract_transaction_by_pattern
PatternCreditKeywords == CreditKeywords \cup {<<"t", "r", "a", "n", "s", "f", "e", "r", " ", "i", "n">>}

\* _extract_transaction_by_pattern(line): a dict, None (NoTransaction) or the
\* exception of parse_generic_line
extract_transaction_by_pattern(line) ==
    Let(parse_generic_line(line), LAMBDA match :
        IF match = AttributeError THEN AttributeError
        ELSE IF match # NoTransaction THEN convert_generic_match_to_transaction(match)
        ELSE
    Let(DATE_PATTERN_DDMMYYYY(line), LAMBDA date_match :
        IF date_match = NoMatch THEN NoTransaction ELSE
    Let(parse_date(Slice(line, date_match.start, date_match.end)), LAMBDA date_normalized :
        IF date_normalized \in {None, <<>>} THEN NoTransaction ELSE
    Let(From(line, date_match.end), LAMBDA after_date :
    Let(amount_finditer(after_date, 0), LAMBDA amount_matches :
        IF amount_matches = <<>> THEN NoTransaction ELSE
    Let(parse_amount(amount_matches[1].group1), LAMBDA amount :
        IF amount <= 0 THEN NoTransaction ELSE
    Let(strip_non_word(Strip(
            Slice(line, date_match.end,
                  date_match.end + Find(after_date, amount_matches[1].group1)))),
        LAMBDA description :
    Let(IF amount_matches[1].group2 # None
        THEN Upper(amount_matches[1].group2)
                 \in {<<"C", "R">>, <<"C", "R", "E", "D", "I", "T">>}
        ELSE \E keyword \in PatternCreditKeywords :
                 Contains(Lower(description), keyword), LAMBDA is_credit :
        Draft(date_normalized, clean_description(description),
              IF ~is_credit THEN amount ELSE 0,
              IF is_credit THEN amount ELSE 0,
              0, <<>>, type_of(is_credit),
              IF is_credit THEN {"debit"} ELSE {"credit"})))))))))

\* the least length of a line _parse_generic_fallback reads
FallbackMinLen == 15

\* _parse_generic_fallback(text)
parse_generic_fallback(text) ==
    Let(List([i \in 1..Len(text) |->
                 Let(Strip(text[i]), LAMBDA line :
                     IF Len(line) >= FallbackMinLen /\ ~is_skip_line(line)
                     THEN extract_transaction_by_pattern(line)
                     ELSE NoTransaction)]), LAMBDA found :
        IF \E i \in 1..Len(found) : found[i] = AttributeError THEN Raised
        ELSE Returned(Flatten([i \in 1..Len(found) |->
                 IF found[i] # NoTransaction THEN <<found[i]>> ELSE <<>>])))

\* the adaptive stage runs while the CSV stage found fewer transactions
AdaptiveThreshold == 5

\* the AI stage runs while fewer transactions are found
AiThreshold == 3

\* the fallback stage runs while fewer transactions are found
FallbackThreshold == 1

\* str(e) of the AttributeError of parse_generic_line
AttributeErrorText == <<"'NoneType' object has no attribute 'end'">>

\* a stage that raises leaves no trace in `warnings`
failure_unrecorded(msg, result) == <<>>

\* `except Exception as e: warnings.append(f"... parsing failed: {str(e)}")`
\* around a stage of parse: the warning of a stage that raised
failure_warnings(msg, result) ==
    IF result.raised THEN <<[msg |-> msg, arg |-> AttributeErrorText]>> ELSE <<>>

\* the entry of `warnings` for a dict that fails validation
invalid_transaction_warning(tx) ==
    [msg |-> "Invalid transaction", arg |-> Get(tx, "description", <<"u", "n", "k", "n", "o", "w", "n">>)]

\* an invalid draft is left out and nothing is recorded for it
validate_one_unrecorded(acc, tx, result) ==
    IF result.is_valid
    THEN [acc EXCEPT !.valid_transactions = Append(@, tx)]
    ELSE acc

\* one round of the loop `for tx in transactions` at the end of parse:
\* `result` is what validate_transaction returned to
\* self._validate_transaction(tx), which adds the errors and warnings of an
\* invalid draft to self.errors and self.warnings
validate_one(acc, tx, result) ==
    IF result.is_valid
    THEN [acc EXCEPT !.valid_transactions = Append(@, tx)]
    ELSE [acc EXCEPT
             !.warnings = Append(@, invalid_transaction_warning(tx)),
             !.self_errors = @ \o result.errors,
             !.self_warnings = @ \o result.warnings]

\* the loop `for tx in transactions` at the end of parse, from the k-th dict
\* on: valid_transactions, the local warnings, and what
\* self._validate_transaction adds to self.errors and self.warnings
RECURSIVE validate_all(_, _, _)
validate_all(transactions, k, acc) ==
    IF k > Len(transactions) THEN acc
    ELSE validate_all(transactions, k + 1,
             validate_one(acc, transactions[k], validate_transaction(transactions[k])))

\* the stage is in the list of the stages that ran when fewer than
\* `threshold` transactions were collected before it
stage_runs(stage, transactions, threshold) ==
    IF Len(transactions) < threshold THEN <<stage>> ELSE <<>>

\* the adaptive stage did not run
NoAdaptive == [transactions |-> <<>>, strategies |-> <<>>, errors |-> <<>>, warnings |-> <<>>]

\* BankStatementParser.parse(text): the ParseResult (transactions,
\* statement_type, errors, warnings), the stages and the strategies that ran,
\* the list `transactions` before (extracted) and after self._deduplicate
\* (deduplicated), and what the call appends to self.errors and self.warnings
bank_parse(text) ==
    Let((\E i \in 1..Len(text) : Contains(text[i], <<",">>)) /\ has_csv_structure(text),
        LAMBDA is_csv :
    Let(IF is_csv THEN parse_csv(text) ELSE <<>>, LAMBDA csv :
    Let(IF Len(csv) < AdaptiveThreshold THEN parse_adaptive(text) ELSE NoAdaptive,
        LAMBDA adaptive :
    Let(csv \o adaptive.transactions, LAMBDA after_adaptive :
    Let(after_adaptive \o (IF Len(after_adaptive) < AiThreshold
                           THEN parse_with_ai(text) ELSE <<>>), LAMBDA after_ai :
    Let(IF Len(after_ai) < FallbackThreshold
        THEN parse_generic_fallback(text) ELSE Returned(<<>>), LAMBDA fallback :
    Let(after_ai \o fallback.transactions, LAMBDA extracted :
    Let(deduplicate_transactions(extracted), LAMBDA deduplicated :
    Let(validate_all(deduplicated, 1,
            [valid_transactions |-> <<>>,
             warnings |-> failure_warnings("Fallback parsing failed", fallback),
             self_errors |-> adaptive.errors,
             self_warnings |-> adaptive.warnings]), LAMBDA validated :
        [transactions |-> validated.valid_transactions,
         statement_type |-> "bank",
         errors |-> <<>>,
         warnings |-> validated.warnings,
         stages |-> (IF is_csv THEN <<"_parse_csv">> ELSE <<>>)
                      \o stage_runs("_parse_adaptive", csv, AdaptiveThreshold)
                      \o stage_runs("_parse_with_ai", after_adaptive, AiThreshold)
                      \o stage_runs("_parse_generic_fallback", after_ai, FallbackThreshold),
         strategies |-> adaptive.strategies,
         extracted |-> extracted,
         deduplicated |-> deduplicated,
         self_errors |-> validated.self_errors,
         self_warnings |-> validated.self_warnings])))))))))

-----------------------------------------------------------------------------
(* formats/generic_parser.py *)

\* the fields of header_keywords in _detect_column_structure, in dict order
GenericFields ==
    <<"date", "description", "amount", "debit", "credit", "balance", "reference">>

\* header_keywords of _detect_column_structure
GenericHeaderKeywords ==
    [date |-> {<<"d", "a", "t", "e">>, <<"p", "o", "s", "t", "i", "n", "g">>, <<"t", "r", "a", "n", "s", "a", "c", "t", "i", "o", "n">>, <<"d", "t">>},
     description |-> {<<"d", "e", "s", "c", "r", "i", "p", "t", "i", "o", "n">>, <<"n", "a", "r", "r", "a", "t", "i", "o", "n">>, <<"m", "e", "r", "c", "h", "a", "n", "t">>, <<"p", "a", "y", "e", "e">>,
                      <<"t", "r", "a", "n", "s", "a", "c", "t", "i", "o", "n", " ", "d", "e", "t", "a", "i", "l", "s">>, <<"p", "a", "r", "t", "i", "c", "u", "l", "a", "r", "s">>},
     amount |-> {<<"a", "m", "o", "u", "n", "t">>, <<"v", "a", "l", "u", "e">>},
     debit |-> {<<"d", "e", "b", "i", "t">>, <<"w", "i", "t", "h", "d", "r", "a", "w", "a", "l">>, <<"d", "r">>},
     credit |-> {<<"c", "r", "e", "d", "i", "t">>, <<"d", "e", "p", "o", "s", "i", "t">>, <<"c", "r">>},
     balance |-> {<<"b", "a", "l", "a", "n", "c", "e">>, <<"c", "l", "o", "s", "i", "n", "g">>},
     reference |-> {<<"r", "e", "f", "e", "r", "e", "n", "c", "e">>, <<"r", "e", "f">>, <<"c", "h", "q">>, <<"t", "x", "n">>}]

\* the words _map_columns_by_position reads as a field
PositionKeywords ==
    [date |-> {<<"d", "a", "t", "e">>, <<"d", "t">>, <<"p", "o", "s", "t", "i", "n", "g">>, <<"t", "r", "a", "n", "s", "a", "c", "t", "i", "o", "n">>},
     description |-> {<<"d", "e", "s", "c", "r", "i", "p", "t", "i", "o", "n">>, <<"n", "a", "r", "r", "a", "t", "i", "o", "n">>, <<"p", "a", "r", "t", "i", "c", "u", "l", "a", "r", "s">>, <<"m", "e", "r", "c", "h", "a", "n", "t">>},
     amount |-> {},
     debit |-> {<<"w", "i", "t", "h", "d", "r", "a", "w", "a", "l">>, <<"d", "e", "b", "i", "t">>, <<"d", "r">>, <<"a", "m", "o", "u", "n", "t">>, <<"v", "a", "l">>},
     credit |-> {<<"d", "e", "p", "o", "s", "i", "t">>, <<"c", "r", "e", "d", "i", "t">>, <<"c", "r">>},
     balance |-> {<<"b", "a", "l", "a", "n", "c", "e">>, <<"c", "l", "o", "s", "i", "n", "g">>},
     reference |-> {<<"r", "e", "f", "e", "r", "e", "n", "c", "e">>, <<"r", "e", "f">>, <<"c", "h", "q">>, <<"t", "x", "n">>}]

\* the empty dict of columns: -1 for a field that is not a key
NoGenericColumns ==
    [date |-> -1, description |-> -1, amount |-> -1, debit |-> -1,
     credit |-> -1, balance |-> -1, reference |-> -1]

\* delimiters of GenericStatementParser._detect_delimiter
GenericDelimiters == <<"\t", "|", "~", ",">>

\* GenericStatementParser._detect_delimiter(line)
generic_detect_delimiter(line) ==
    Let({k \in 1..Len(GenericDelimiters) : Contains(line, <<GenericDelimiters[k]>>)},
        LAMBDA found :
        IF found = {} THEN " "
        ELSE GenericDelimiters[CHOOSE k \in found : \A j \in found : k <= j])

\* _map_columns_by_position(header_line): each word assigns its field, and a
\* later word overwrites an earlier one
map_columns_by_position(header_line) ==
    Let(Words(header_line), LAMBDA words :
    Let(List([i \in 1..Len(words) |->
                 StripChars(Lower(words[i]), {".", ",", ":", "-", "_"})]),
        LAMBDA words_lower :
        [field \in DOMAIN NoGenericColumns |->
            Let({i \in 1..Len(words_lower) : words_lower[i] \in PositionKeywords[field]},
                LAMBDA hits :
                IF hits = {} THEN -1
                ELSE (CHOOSE i \in hits : \A k \in hits : k <= i) - 1)]))

\* the minimal number of fields found in a header line
GenericHeaderFields == 3

\* the least length of a line _detect_column_structure reads
GenericHeaderMinLen == 20

\* GenericStatementParser._map_columns(header_line, field_keywords, delimiter):
\* the first part that holds a variation of a field keeps the field
generic_map_columns(header_line, delimiter) ==
    IF delimiter = " " THEN map_columns_by_position(header_line) ELSE
    Let(Split(header_line, delimiter), LAMBDA parts :
    Let(List([i \in 1..Len(parts) |-> Strip(Lower(parts[i]))]), LAMBDA parts_lower :
        [field \in DOMAIN NoGenericColumns |->
            Let({i \in 1..Len(parts_lower) :
                     \E var \in GenericHeaderKeywords[field] :
                         Contains(parts_lower[i], var)}, LAMBDA hits :
                IF hits = {} THEN -1
                ELSE (CHOOSE i \in hits : \A k \in hits : i <= k) - 1)]))

generic_found_keywords(line_lower) ==
    {field \in DOMAIN NoGenericColumns :
        \E var \in GenericHeaderKeywords[field] : Contains(line_lower, var)}

\* _detect_column_structure(text)['columns']
detect_column_structure(text) ==
    Let({i \in 1..Len(text) : Len(text[i]) >= GenericHeaderMinLen}, LAMBDA long :
    Let(generic_detect_delimiter(text[CHOOSE i \in long : \A k \in long : i <= k]),
        LAMBDA delimiter :
    Let({i \in long :
             Cardinality(generic_found_keywords(Lower(text[i]))) >= GenericHeaderFields},
        LAMBDA headers :
        IF headers = {} THEN NoGenericColumns
        ELSE generic_map_columns(
                 text[CHOOSE i \in headers : \A k \in headers : i <= k], delimiter))))

\* DATE_PATTERN_DDMMYYYY.findall(s) from offset p on
RECURSIVE date_findall(_, _)
date_findall(s, p) ==
    Let([q \in 1..Len(s) |-> date_ddmmyyyy_at(s, q - 1)], LAMBDA ends :
        IF ~(\E q \in p..(Len(s) - 1) : ends[q + 1] >= 0) THEN <<>> ELSE
    Let(CHOOSE q \in p..(Len(s) - 1) :
            /\ ends[q + 1] >= 0
            /\ \A k \in p..(q - 1) : ends[k + 1] < 0, LAMBDA q :
        <<Slice(s, q, ends[q + 1])>> \o date_findall(s, ends[q + 1])))

\* the sizes of the samples _learn_patterns keeps
DateSamples == 3

AmountSamples == 3

TransactionSamples == 5

\* the length a skip line is cut to
SkipLineLen == 50

\* the least length of a line that is a transaction sample
TransactionSampleLen == 20

\* _learn_patterns(text): a key whose list is empty is absent from the dict.
\* No pattern matches across a line break but for the blanks after an amount,
\* which are in none of the samples.  skip_lines is list(set(...))[:10], a
\* list in no fixed order of a set that has fewer than 10 members here.
learn_patterns(text) ==
    Let3(List([i \in 1..Len(text) |-> date_findall(text[i], 0)]),
         List([i \in 1..Len(text) |-> amount_finditer(text[i], 0)]),
         List([i \in 1..Len(text) |-> is_skip_line(text[i])]),
         LAMBDA dates, amounts, skips :
        [date_sample |-> Slice(Flatten(dates), 0, DateSamples),
         amount_sample |->
             Slice(Flatten([i \in 1..Len(text) |->
                       [k \in 1..Len(amounts[i]) |-> amounts[i][k].group1]]),
                   0, AmountSamples),
         skip_lines |-> {Slice(Strip(text[i]), 0, SkipLineLen) :
                            i \in {k \in 1..Len(text) : skips[k]}},
         transaction_sample |->
             Slice(Flatten([i \in 1..Len(text) |->
                       IF /\ ~skips[i]
                          /\ Len(text[i]) > TransactionSampleLen
                          /\ dates[i] # <<>>
                          /\ amounts[i] # <<>>
                       THEN <<text[i]>> ELSE <<>>]),
                   0, TransactionSamples)])

\* the dict of _create_transaction and of the two other passes: 'debit' is
\* the int 0, and 'credit' is the int 0 unless the transaction is a credit
generic_draft(date, description, amount, is_credit) ==
    [Draft(date, description, 0, IF is_credit THEN amount ELSE 0, 0, <<>>,
           type_of(is_credit),
           IF is_credit THEN {"debit"} ELSE {"debit", "credit"})
        EXCEPT !.has = DraftKeys \cup {"amount"}, !.amount = Num(amount)]

\* _create_transaction(date, description, amount, is_credit, raw)
create_transaction(date, description, amount, is_credit, raw) ==
    Let(generic_draft(date, description, amount, is_credit), LAMBDA tx :
        [k \in DOMAIN tx \cup {"raw_line"} |->
            IF k = "raw_line" THEN raw
            ELSE IF k = "has" THEN tx.has \cup {"raw_line"} ELSE tx[k]])

\* ^(\d{1,2})\s*Rupee?\s*([0-9,]+\.\d{2})\s*(?:Dr|Cr)?$ with IGNORECASE and a
\* day of `width` digits: group 2, None without a match
day_amount_with(line, width) ==
    Let(From(line, width), LAMBDA s :
    Let(RunEnd(s, 0, Whitespace), LAMBDA a :
    Let(RunEnd(s, IF Ch(s, a) = "Rupee" THEN a + 1 ELSE a, Whitespace), LAMBDA c :
    Let(RunEnd(s, c, AmountChars), LAMBDA d :
    Let(RunEnd(s, d + 3, Whitespace), LAMBDA e :
    Let(Lower(Slice(s, e, e + 2)), LAMBDA suffix :
        IF /\ Len(line) >= width
           /\ IsDigits(Slice(line, 0, width))
           /\ d > c
           /\ Ch(s, d) = "."
           /\ Ch(s, d + 1) \in Digits
           /\ Ch(s, d + 2) \in Digits
           /\ (IF suffix \in {<<"d", "r">>, <<"c", "r">>} THEN e + 2 ELSE e) = Len(s)
        THEN Slice(s, c, d + 3)
        ELSE None))))))

\* group 2 of the day-and-amount pattern matched on line2: the day takes two
\* digits before it takes one
day_amount(line) ==
    Let(day_amount_with(line, 2), LAMBDA group :
        IF group # None THEN group ELSE day_amount_with(line, 1))

\* re.search(r'(Dr|Cr|DR|CR)', line3, re.IGNORECASE), lowered; 'dr' without
drcr_of(line) ==
    Let({p \in 0..(Len(line) - 2) :
             Lower(Slice(line, p, p + 2)) \in {<<"d", "r">>, <<"c", "r">>}}, LAMBDA marks :
        IF marks = {} THEN <<"d", "r">> ELSE
    Let(CHOOSE p \in marks : \A q \in marks : p <= q, LAMBDA first :
        Lower(Slice(line, first, first + 2))))

\* ^([A-Za-z]{3})\s+(\d{1,2})\s+(?:Dr|Cr) with IGNORECASE matched on line3:
\* the groups
month_day(line) ==
    Let(RunEnd(line, 3, Whitespace), LAMBDA a :
    Let(RunEnd(line, a, Digits), LAMBDA b :
    Let(RunEnd(line, b, Whitespace), LAMBDA c :
        IF /\ Len(line) >= 3
           /\ \A k \in 0..2 : Ch(line, k) \in Letters
           /\ a > 3
           /\ b - a \in 1..2
           /\ c > b
           /\ Lower(Slice(line, c, c + 2)) \in {<<"d", "r">>, <<"c", "r">>}
        THEN [matched |-> TRUE, month |-> Slice(line, 0, 3), day |-> Slice(line, a, b)]
        ELSE [matched |-> FALSE, month |-> <<>>, day |-> <<>>])))

\* the year _parse_multi_line_transactions gives every transaction
DefaultYear == <<"2", "0", "2", "5">>

\* the while loop of _parse_multi_line_transactions from index i on
RECURSIVE generic_multi_line_from(_, _)
generic_multi_line_from(lines, i) ==
    IF i >= Len(lines) - 2 THEN <<>> ELSE
    Let2(day_amount(lines[i + 2]), month_day(lines[i + 3]), LAMBDA amount_str, date_match :
        IF ~(amount_str # None /\ date_match.matched)
        THEN generic_multi_line_from(lines, i + 1) ELSE
    Let(parse_date(Zfill(date_match.day, 2) \o <<" ">> \o date_match.month \o <<" ">>
                     \o DefaultYear), LAMBDA parsed_date :
        IF parsed_date # None
        THEN <<generic_draft(parsed_date, lines[i + 1], parse_amount(amount_str),
                             drcr_of(lines[i + 3]) = <<"c", "r">>)>>
               \o generic_multi_line_from(lines, i + 3)
        ELSE generic_multi_line_from(lines, i + 1)))

\* _parse_multi_line_transactions(text)
parse_multi_line_transactions(text) ==
    generic_multi_line_from(
        SelectSeq([i \in 1..Len(text) |-> Strip(text[i])], LAMBDA l : l # <<>>), 0)

\* the text of a sequence of lines
RECURSIVE join_lines(_)
join_lines(text) ==
    IF text = <<>> THEN <<>>
    ELSE IF Len(text) = 1 THEN text[1]
    ELSE text[1] \o <<"\n">> \o join_lines(Tail(text))

\* [/\s]
DateSeparators == {"/"} \cup Whitespace

\* the lengths \d{1,2}, \d{1,2} and \d{2,4} try, in the order a backtracking
\* match tries them
DateWidths ==
    <<<<2, 2, 4>>, <<2, 2, 3>>, <<2, 2, 2>>, <<2, 1, 4>>, <<2, 1, 3>>, <<2, 1, 2>>,
      <<1, 2, 4>>, <<1, 2, 3>>, <<1, 2, 2>>, <<1, 1, 4>>, <<1, 1, 3>>, <<1, 1, 2>>>>

\* (\d{1,2}[/\s]\d{1,2}[/\s]\d{2,4}) matched at p with the widths w: the end
\* of the match, -1 without
loose_date_at(s, p, w) ==
    LET a == p + w[1]
        b == a + 1 + w[2]
        c == b + 1 + w[3]
    IN  IF /\ c <= Len(s)
           /\ IsDigits(Slice(s, p, a)) /\ Ch(s, a) \in DateSeparators
           /\ IsDigits(Slice(s, a + 1, b)) /\ Ch(s, b) \in DateSeparators
           /\ IsDigits(Slice(s, b + 1, c))
        THEN c ELSE -1

\* ([0-9,]+\.\d{2}) matched at q: the end of the match, -1 without
decimal_amount_at(s, q) ==
    Let(RunEnd(s, q, AmountChars), LAMBDA r :
        IF r > q /\ Ch(s, r) = "." /\ Ch(s, r + 1) \in Digits /\ Ch(s, r + 2) \in Digits
        THEN r + 3 ELSE -1)

\* .*?([0-9,]+\.\d{2}) matched at e: the offset of the amount, -1 without
lazy_amount_from(s, e) ==
    Let({q \in e..(Len(s) - 1) :
             /\ decimal_amount_at(s, q) >= 0
             /\ \A k \in e..(q - 1) : Ch(s, k) # "\n"}, LAMBDA hits :
        IF hits = {} THEN -1 ELSE CHOOSE q \in hits : \A k \in hits : q <= k)

\* complex_pattern of _parse_regex_fallback matched at p: the match with its
\* three groups, NoMatch without
complex_match_at(s, p) ==
    Let(List([k \in 1..Len(DateWidths) |-> loose_date_at(s, p, DateWidths[k])]),
        LAMBDA date_ends :
    Let(List([k \in 1..Len(DateWidths) |->
                 IF date_ends[k] >= 0 THEN lazy_amount_from(s, date_ends[k]) ELSE -1]),
        LAMBDA amount_starts :
    Let({k \in 1..Len(DateWidths) : date_ends[k] >= 0 /\ amount_starts[k] >= 0},
        LAMBDA fits :
        IF fits = {} THEN NoMatch ELSE
    Let(CHOOSE k \in fits : \A j \in fits : k <= j, LAMBDA first :
    Let(decimal_amount_at(s, amount_starts[first]), LAMBDA amount_end :
    Let(RunEnd(s, amount_end, Whitespace), LAMBDA blank_end :
    Let(Lower(Slice(s, blank_end, blank_end + 2)) \in {<<"c", "r">>, <<"d", "r">>},
        LAMBDA marked :
        [start |-> p,
         end |-> IF marked THEN blank_end + 2 ELSE blank_end,
         group1 |-> Slice(s, p, date_ends[first]),
         group2 |-> Slice(s, amount_starts[first], amount_end),
         group3 |-> IF marked THEN Slice(s, blank_end, blank_end + 2) ELSE None])))))))

\* complex_pattern.finditer(s) from offset p on
RECURSIVE complex_finditer(_, _)
complex_finditer(s, p) ==
    Let(List([k \in 1..(Len(s) - p) |->
                 IF Ch(s, p + k - 1) \in Digits
                 THEN complex_match_at(s, p + k - 1) ELSE NoMatch]), LAMBDA candidates :
    Let({q \in 1..Len(candidates) : candidates[q] # NoMatch}, LAMBDA starts :
        IF starts = {} THEN <<>> ELSE
    Let(candidates[CHOOSE q \in starts : \A k \in starts : q <= k], LAMBDA m :
        <<m>> \o complex_finditer(s, m.end))))

\* (\d{1,2}[/\s]\d{1,2}[/\s]\d{2,4})\s*(.+?)\s*[0-9,] matched at p with the
\* widths w: the candidates of group 2, as pairs of its start and its end
description_candidates(s, p, w) ==
    Let(loose_date_at(s, p, w), LAMBDA date_end :
        IF date_end < 0 THEN {} ELSE
    Let(RunEnd(s, date_end, Whitespace), LAMBDA blank_end :
        {c \in (date_end..blank_end) \X (date_end..Len(s)) :
            /\ c[2] > c[1]
            /\ \A k \in c[1]..(c[2] - 1) : Ch(s, k) # "\n"
            /\ Ch(s, RunEnd(s, c[2], Whitespace)) \in AmountChars}))

\* the same pattern matched at p: group 2 of the match a backtracking match
\* finds first (the widths in their order, the longest blank, the shortest
\* group), None without a match
description_at(s, p) ==
    Let(List([k \in 1..Len(DateWidths) |-> description_candidates(s, p, DateWidths[k])]),
        LAMBDA candidates :
    Let({k \in 1..Len(DateWidths) : candidates[k] # {}}, LAMBDA fits :
        IF fits = {} THEN None ELSE
    Let(candidates[CHOOSE k \in fits : \A j \in fits : k <= j], LAMBDA cs :
    Let(CHOOSE c \in cs : \A d \in cs : c[1] > d[1] \/ (c[1] = d[1] /\ c[2] <= d[2]),
        LAMBDA c :
        Slice(s, c[1], c[2])))))

\* re.search of that pattern in `context`: group(2).strip(), or 'Transaction'
context_description(context) ==
    Let(List([p \in 1..Len(context) |->
                 IF Ch(context, p - 1) \in Digits
                 THEN description_at(context, p - 1) ELSE None]), LAMBDA descriptions :
    Let({p \in 1..Len(descriptions) : descriptions[p] # None}, LAMBDA starts :
        IF starts = {}
        THEN <<"T", "r", "a", "n", "s", "a", "c", "t", "i", "o", "n">>
        ELSE Strip(descriptions[CHOOSE p \in starts : \A q \in starts : p <= q])))

\* the characters of context _parse_regex_fallback reads on either side
ContextChars == 50

\* _parse_regex_fallback(text)
parse_regex_fallback(text) ==
    Let(join_lines(text), LAMBDA s :
    Let(complex_finditer(s, 0), LAMBDA matches :
        Flatten([k \in 1..Len(matches) |->
            Let2(parse_date(matches[k].group1), parse_amount(matches[k].group2),
                 LAMBDA date_str, amount :
                IF date_str = None \/ amount <= 0 THEN <<>>
                ELSE <<generic_draft(
                           date_str,
                           context_description(
                               Slice(s, Max(0, matches[k].start - ContextChars),
                                     Min(Len(s), matches[k].end + ContextChars))),
                           amount,
                           matches[k].group3 # None
                             /\ Upper(matches[k].group3) = <<"C", "R">>)>>)])))

\* the second pass runs while the first found fewer transactions
MultiLineThreshold == 3

\* the third pass runs while fewer transactions are found
RegexThreshold == 5

\* _parse_transactions(text): the list, or the exception of parse_generic_line
parse_transactions(text) ==
    Let(List([i \in 1..Len(text) |-> Strip(text[i])]), LAMBDA lines :
    Let(List([i \in 1..Len(lines) |->
                 IF is_skip_line(lines[i]) THEN NoTransaction
                 ELSE parse_generic_line(lines[i])]), LAMBDA matches :
        IF \E i \in 1..Len(matches) : matches[i] = AttributeError THEN Raised ELSE
    Let(Flatten([i \in 1..Len(lines) |->
            IF matches[i] # NoTransaction
            THEN <<create_transaction(matches[i].date, matches[i].description,
                       matches[i].amount, matches[i].is_credit, lines[i])>>
            ELSE <<>>]), LAMBDA first :
    Let(IF Len(first) < MultiLineThreshold
        THEN first \o parse_multi_line_transactions(text) ELSE first, LAMBDA second :
        Returned(IF Len(second) < RegexThreshold
                 THEN second \o parse_regex_fallback(text) ELSE second)))))

\* BaseParser._normalize_transaction(tx): the amount is read back from its
\* str()
normalize_transaction(tx) ==
    [Draft(Get(tx, "date", <<>>),
           normalize_description(Get(tx, "description", <<>>)),
           Get(tx, "debit", 0), Get(tx, "credit", 0), Get(tx, "balance", 0),
           Get(tx, "reference", <<>>), Get(tx, "type", "unknown"),
           tx.literal_zero)
        EXCEPT !.has = DraftKeys \cup {"amount"},
               !.amount = Num(parse_amount(
                              IF "amount" \in tx.has THEN float_str(tx.amount.v)
                              ELSE <<"0">>)),
               !.card_no = Get(tx, "card_no", <<>>),
               !.value_date = Get(tx, "value_date", <<>>),
               !.narration = Get(tx, "narration", Get(tx, "description", <<>>)),
               !.merchant = Get(tx, "merchant", Get(tx, "description", <<>>))]

\* the least length of a description GenericStatementParser keeps
GenericMinDescriptionLen == 2

\* GenericStatementParser._validate_transaction(tx)
generic_validate_transaction(tx) ==
    LET desc == Get(tx, "description", <<>>)
    IN  /\ Get(tx, "date", None) \notin {None, <<>>}
        /\ Get(tx, "amount", Num(0)).v > 0
        /\ Len(desc) >= GenericMinDescriptionLen
        /\ \E i \in 1..Len(desc) : desc[i] \notin Digits \cup Whitespace \cup {".", ","}

\* the keywords of _guess_statement_type
UpiWords == {<<"u", "p", "i">>, <<"p", "h", "o", "n", "e", "p", "e">>, <<"g", "o", "o", "g", "l", "e", " ", "p", "a", "y">>, <<"i", "x", "i", "g", "o">>, <<"a", "u", " ", "b", "a", "n", "k">>}

CreditCardWords == {<<"c", "r", "e", "d", "i", "t", " ", "c", "a", "r", "d">>, <<"t", "o", "t", "a", "l", " ", "a", "m", "o", "u", "n", "t", " ", "d", "u", "e">>, <<"m", "i", "n", "i", "m", "u", "m", " ", "a", "m", "o", "u", "n", "t", " ", "d", "u", "e">>}

\* _guess_statement_type(text)
guess_statement_type(text) ==
    Let(Lower(join_lines(text)), LAMBDA text_lower :
        IF \E kw \in UpiWords : Contains(text_lower, kw) THEN "upi"
        ELSE IF \E kw \in CreditCardWords : Contains(text_lower, kw)
        THEN "credit_card"
        ELSE "bank")

\* the loop `for tx in transactions` at the end of GenericStatementParser.parse
RECURSIVE generic_validate_all(_, _, _)
generic_validate_all(transactions, k, acc) ==
    IF k > Len(transactions) THEN acc
    ELSE LET tx == transactions[k]
         IN  generic_validate_all(transactions, k + 1,
                 IF generic_validate_transaction(tx)
                 THEN [acc EXCEPT !.valid_transactions = Append(@, tx)]
                 ELSE [acc EXCEPT
                          !.warnings = Append(@, invalid_transaction_warning(tx))])

\* GenericStatementParser.parse(text): the ParseResult, or the exception of
\* _parse_transactions (raised), with self.columns_detected and self.patterns
\* as the call leaves them
generic_parse(text) ==
    Let(parse_transactions(text), LAMBDA parsed :
    Let(generic_validate_all(
            deduplicate_transactions(
                List([k \in 1..Len(parsed.transactions) |->
                         normalize_transaction(parsed.transactions[k])])),
            1, [valid_transactions |-> <<>>, warnings |-> <<>>]), LAMBDA validated :
        [raised |-> parsed.raised,
         transactions |-> validated.valid_transactions,
         statement_type |-> IF parsed.raised THEN "" ELSE guess_statement_type(text),
         errors |-> <<>>,
         warnings |-> validated.warnings,
         columns_detected |-> detect_column_structure(text),
         patterns |-> learn_patterns(text)]))

-----------------------------------------------------------------------------
(* detector.py and parser.py *)

\* detect_statement_type(text): StatementType.BANK for every text; the value
\* of the enum member
detect_statement_type(text) == "bank"

\* the header keywords of detector.py, which detect_statement_type does not read
BankHeaderKeywords ==
    {<<"s", "t", "a", "t", "e", "m", "e", "n", "t", " ", "o", "f", " ", "a", "c", "c", "o", "u", "n", "t", "s">>, <<"b", "a", "n", "k", " ", "s", "t", "a", "t", "e", "m", "e", "n", "t">>, <<"a", "c", "c", "o", "u", "n", "t", " ", "s", "t", "a", "t", "e", "m", "e", "n", "t">>,
     <<"a", "c", "c", "o", "u", "n", "t", " ", "b", "r", "a", "n", "c", "h">>, <<"a", "c", "c", "o", "u", "n", "t", " ", "n", "o">>, <<"a", "c", "c", "o", "u", "n", "t", " ", "n", "u", "m", "b", "e", "r">>}

CreditCardHeaderKeywords ==
    {<<"c", "r", "e", "d", "i", "t", " ", "c", "a", "r", "d">>, <<"c", "a", "r", "d", " ", "s", "t", "a", "t", "e", "m", "e", "n", "t">>, <<"c", "a", "r", "d", " ", "n", "o">>, <<"c", "a", "r", "d", " ", "n", "u", "m", "b", "e", "r">>,
     <<"c", "a", "r", "d", " ", "s", "u", "m", "m", "a", "r", "y">>, <<"t", "o", "t", "a", "l", " ", "a", "m", "o", "u", "n", "t", " ", "d", "u", "e">>, <<"m", "i", "n", "i", "m", "u", "m", " ", "a", "m", "o", "u", "n", "t", " ", "d", "u", "e">>}

UpiHeaderKeywords ==
    {<<"u", "p", "i">>, <<"p", "h", "o", "n", "e", "p", "e">>, <<"g", "o", "o", "g", "l", "e", " ", "p", "a", "y">>, <<"g", "p", "a", "y">>, <<"p", "a", "y", "m", "e", "n", "t", " ", "a", "p", "p">>,
     <<"w", "a", "l", "l", "e", "t", " ", "s", "t", "a", "t", "e", "m", "e", "n", "t">>, <<"t", "r", "a", "n", "s", "a", "c", "t", "i", "o", "n", " ", "h", "i", "s", "t", "o", "r", "y">>}

\* self.parsers of StatementParser: the class of each parser and its
\* statement_type
Parsers ==
    <<[class |-> "GenericStatementParser", statement_type |-> "generic"],
      [class |-> "BankStatementParser", statement_type |-> "bank"],
      [class |-> "CreditCardParser", statement_type |-> "credit_card"],
      [class |-> "UPIStatementParser", statement_type |-> "upi"]>>

\* _select_parser(statement_type): the class of the parser
select_parser(statement_type) ==
    Let({k \in 1..Len(Parsers) : Parsers[k].statement_type = statement_type},
        LAMBDA found :
        IF found = {} THEN Parsers[1].class
        ELSE Parsers[CHOOSE k \in found : \A j \in found : k <= j].class)

\* one dict of _normalize_all: as _normalize_transaction, but the value date
\* defaults to the date
normalize_one(tx) ==
    [normalize_transaction(tx) EXCEPT
        !.value_date = Get(tx, "value_date", Get(tx, "date", <<>>))]

\* _normalize_all(transactions)
normalize_all(transactions) ==
    List([k \in 1..Len(transactions) |-> normalize_one(transactions[k])])

\* _deduplicate_all(transactions)
deduplicate_all(transactions) == deduplicate_transactions(transactions)

\* ParseOptions(): the defaults of normalize and deduplicate
DefaultOptions == [normalize |-> TRUE, deduplicate |-> TRUE]

\* the part of StatementParser.parse_text(text, options) that follows
\* parser.parse(text): `parsed` is the ParseResult of the format parser
finish_parse_text(parsed, statement_type, options) ==
    Let(IF options.normalize THEN normalize_all(parsed.transactions)
        ELSE parsed.transactions, LAMBDA normalized :
        [transactions |-> IF options.deduplicate THEN deduplicate_all(normalized)
                          ELSE normalized,
         statement_type |-> statement_type,
         errors |-> parsed.errors,
         warnings |-> parsed.warnings])

-----------------------------------------------------------------------------
(* parser.py: ParseResult.get_summary.  A transaction is a dict of the keys  *)
(* credit, debit, amount (numbers, in cents) and type (a string).            *)

\* the inferred side is always the debit side, whatever the type (mutant)
summary_step_amount_as_debit(acc, tx) ==
    Let2(Get(tx, "credit", 0), Get(tx, "debit", 0), LAMBDA credit, debit :
        IF credit = 0 /\ debit = 0 /\ "amount" \in tx.has
        THEN [acc EXCEPT !.total_debit = @ + tx.amount]
        ELSE [acc EXCEPT !.total_credit = @ + credit, !.total_debit = @ + debit])

\* the body of `for tx in self.transactions`
summary_step(acc, tx) ==
    Let2(Get(tx, "credit", 0), Get(tx, "debit", 0), LAMBDA credit, debit :
        IF credit = 0 /\ debit = 0 /\ "amount" \in tx.has
        THEN IF Lower(Get(tx, "type", <<"d", "e", "b", "i", "t">>))
                  = <<"c", "r", "e", "d", "i", "t">>
             THEN [acc EXCEPT !.total_credit = @ + tx.amount]
             ELSE [acc EXCEPT !.total_debit = @ + tx.amount]
        ELSE [acc EXCEPT !.total_credit = @ + credit, !.total_debit = @ + debit])

RECURSIVE summary_totals(_, _, _)
summary_totals(transactions, k, acc) ==
    IF k > Len(transactions) THEN acc
    ELSE summary_totals(transactions, k + 1, summary_step(acc, transactions[k]))

\* get_summary(self) of the ParseResult `result`
get_summary(result) ==
    Let(summary_totals(result.transactions, 1, [total_credit |-> 0, total_debit |-> 0]),
        LAMBDA totals :
        [total_transactions |-> Len(result.transactions),
         total_credits |-> totals.total_credit,
         total_debits |-> totals.total_debit,
         net_amount |-> totals.total_credit - totals.total_debit,
         statement_type |-> result.statement_type,
         errors |-> Len(result.errors),
         warnings |-> Len(result.warnings)])

SummaryKeys == {"credit", "debit", "amount", "type"}

SummaryTypes == {<<"c", "r", "e", "d", "i", "t">>, <<"d", "e", "b", "i", "t">>}

\* the transactions of SpecSummary: every combination of present keys; the
\* value of an absent key is a filler
SummaryPool ==
    {tx \in [has : SUBSET SummaryKeys, credit : {0, 50000}, debit : {0, 20000},
             amount : {10000}, type : SummaryTypes \cup {EmptyStr}] :
        /\ "credit" \notin tx.has => tx.credit = 0
        /\ "debit" \notin tx.has => tx.debit = 0
        /\ ("type" \in tx.has) = (tx.type # EmptyStr)}

\* the largest number of transactions of a ParseResult
MaxSummaryTxs == 2

-----------------------------------------------------------------------------
(* formats/base.py: BaseParser._is_skip_line *)

\* header_keywords of _is_skip_line
BaseHeaderKeywords ==
    {<<"s", "t", "a", "t", "e", "m", "e", "n", "t">>,
     <<"p", "a", "g", "e">>,
     <<"p", "a", "g", "e", " ", "n", "o">>,
     <<"c", "o", "n", "t", "i", "n", "u", "e", "d">>,
     <<"e", "n", "d">>,
     <<"s", "u", "m", "m", "a", "r", "y">>,
     <<"t", "o", "t", "a", "l">>,
     <<"b", "a", "l", "a", "n", "c", "e">>,
     <<"c", "r", "e", "d", "i", "t", " ", "l", "i", "m", "i", "t">>,
     <<"p", "a", "y", "m", "e", "n", "t", " ", "d", "u", "e">>,
     <<"a", "c", "c", "o", "u", "n", "t", " ", "s", "u", "m", "m", "a", "r", "y">>,
     <<"c", "a", "r", "d", " ", "s", "u", "m", "m", "a", "r", "y">>,
     <<"r", "e", "w", "a", "r", "d", " ", "p", "o", "i", "n", "t", "s">>,
     <<"e", "a", "r", "n", "i", "n", "g", "s">>,
     <<"b", "o", "n", "u", "s">>,
     <<"c", "a", "s", "h", "b", "a", "c", "k">>,
     <<"i", "m", "p", "o", "r", "t", "a", "n", "t">>,
     <<"m", "e", "s", "s", "a", "g", "e", "s">>,
     <<"n", "o", "t", "e", "s">>,
     <<"t", "e", "r", "m", "s">>,
     <<"t", "r", "a", "n", "s", "a", "c", "t", "i", "o", "n", " ", "t", "y", "p", "e">>,
     <<"t", "r", "a", "n", "s", "a", "c", "t", "i", "o", "n", " ", "d", "a", "t", "e">>,
     <<"d", "e", "s", "c", "r", "i", "p", "t", "i", "o", "n">>,
     <<"a", "m", "o", "u", "n", "t">>,
     <<"r", "e", "f", "e", "r", "e", "n", "c", "e">>,
     <<"o", "p", "e", "n", "i", "n", "g", " ", "b", "a", "l", "a", "n", "c", "e">>,
     <<"c", "l", "o", "s", "i", "n", "g", " ", "b", "a", "l", "a", "n", "c", "e">>,
     <<"t", "h", "a", "n", "k", " ", "y", "o", "u">>,
     <<"r", "e", "g", "a", "r", "d", "s">>,
     <<"s", "i", "n", "c", "e", "r", "e", "l", "y">>}

\* a line shorter than this is skipped
BaseSkipLineLen == 5

\* _is_skip_line(self, line)
base_is_skip_line(line) ==
    \/ Strip(line) = <<>>
    \/ Len(line) < BaseSkipLineLen
    \/ \E kw \in BaseHeaderKeywords : Contains(Lower(line), kw)

-----------------------------------------------------------------------------
(* Inputs of the parsers: a text is the list of its lines *)

\* the lines a text is made of
LinePool ==
    <<<<"D", "a", "t", "e", ",", "D", "e", "s", "c", "r", "i", "p", "t", "i", "o", "n", ",", "D", "e", "b", "i", "t", ",", "C", "r", "e", "d", "i", "t">>,
      <<"0", "1", "/", "0", "1", "/", "2", "0", "2", "4", ",", "a", "b", ",", "1", "0", "0", ".", "0", "0", ",">>,
      <<"0", "1", "/", "0", "1", "/", "2", "0", "2", "4", ",", "S", "h", "o", "p", " ", "o", "n", "e", ",", "1", "0", "0", ".", "0", "0", ",">>,
      <<"0", "1", "/", "0", "1", "/", "2", "0", "2", "4", " ", "A", "m", "a", "z", "o", "n", " ", "P", "u", "r", "c", "h", "a", "s", "e", " ", "5", "0", "0", ".", "0", "0">>,
      <<"2", "0", "2", "4", "-", "0", "1", "-", "1", "5", " ", "P", "a", "i", "d", " ", "t", "o", " ", "t", "h", "e", " ", "s", "h", "o", "p">>,
      <<"C", "r", "e", "d", "i", "t", " ", "C", "a", "r", "d", " ", "S", "t", "a", "t", "e", "m", "e", "n", "t">>>>

\* the largest number of lines of a text
MaxLines == 3

TextPool == UNION {[1..n -> {LinePool[k] : k \in 1..Len(LinePool)}] : n \in 0..MaxLines}

OptionsDomain == [normalize : BOOLEAN, deduplicate : BOOLEAN]

\* no call has returned
NoParseResult ==
    [status |-> "none", transactions |-> <<>>, statement_type |-> "",
     errors |-> <<>>, warnings |-> <<>>]

\* a ParseResult
Returns(transactions, statement_type, errors, warnings) ==
    [status |-> "returned", transactions |-> transactions,
     statement_type |-> statement_type, errors |-> errors, warnings |-> warnings]

\* an exception leaves the call
Raises == [NoParseResult EXCEPT !.status = "raised"]

\* {} of learn_patterns
NoPatterns ==
    [date_sample |-> <<>>, amount_sample |-> <<>>, skip_lines |-> {},
     transaction_sample |-> <<>>]

\* the fields of the objects after __init__: errors and warnings of the format
\* parser, columns_detected and patterns of the GenericStatementParser,
\* last_parser_used and last_statement_type of the StatementParser
NewInstance ==
    [errors |-> <<>>, warnings |-> <<>>,
     columns_detected |-> NoGenericColumns, patterns |-> NoPatterns,
     last_parser_used |-> None, last_statement_type |-> None]

ParseIdle ==
    /\ statement = <<>>
    /\ called = "idle"
    /\ parse_options = DefaultOptions
    /\ parse_result = NoParseResult
    /\ drafts = <<>>
    /\ objects = NewInstance

-----------------------------------------------------------------------------
(* Inputs of the line functions: a line is a date, a body, an amount and a  *)
(* marker, or one of a few lines that hold no transaction                   *)

\* the dates a line starts with
LineDates ==
    {<<"1", "3", "/", "0", "4", "/", "2", "0", "2", "5">>,
     <<"0", "1", "/", "0", "1", "/", "2", "0", "2", "4">>,
     <<"1", "/", "4", "/", "2", "5">>}

\* bodies that hold no boilerplate keyword as a whole word
PlainBodies ==
    {<<" ", "1", "1", "0", "8", "2", "7", "7", "1", "5", "8", "1", " ", "B", "B", "P", "S", " ", "P", "a", "y", "m", "e", "n", "t", " ", "r", "e", "c", "e", "i", "v", "e", "d", " ", "0", " ">>,
     <<" ", "B", "B", "P", "S", " ", "P", "a", "i", "d", " ">>,
     <<" ", "A", "m", "a", "z", "o", "n", " ", "P", "u", "r", "c", "h", "a", "s", "e", " ">>,
     <<" ", "U", "P", "I", "-", "C", "R", "E", "D", "C", "L", "U", "B", " ">>,
     <<" ", "V", "E", "N", "D", "O", "R", " ", "p", "a", "y", " ">>}

\* bodies that hold a boilerplate keyword as a whole word
KeywordBodies ==
    {<<" ", "O", "p", "e", "n", "i", "n", "g", " ", "B", "a", "l", "a", "n", "c", "e", " ">>,
     <<" ", "C", "a", "r", "d", " ", "f", "e", "e", "s", " ">>}

LineBodies == PlainBodies \cup KeywordBodies

\* the amounts of a line: the text and its value in cents
LineAmounts ==
    {[text |-> <<"9", ",", "7", "2", "0", ".", "0", "0">>, cents |-> 972000],
     [text |-> <<"5", "0", "0", ".", "0", "0">>, cents |-> 50000]}

\* the credit markers that follow an amount
CrMarkers ==
    {<<" ", "C", "R">>,
     <<"C", "R">>,
     <<" ", "C", "r">>,
     <<" ", "c", "r">>}

\* the debit markers that follow an amount
DrMarkers ==
    {<<" ", "D", "r">>,
     <<"D", "R">>}

LineMarkers == {<<>>} \cup CrMarkers \cup DrMarkers

\* lines that hold no transaction
OtherLines ==
    {<<>>,
     <<" ", " ", " ">>,
     <<"-", "-", "-", "-", "-">>,
     <<"P", "a", "g", "e", " ", "1">>,
     <<"E", "n", "d">>,
     <<"T", "h", "a", "n", "k", " ", "y", "o", "u">>,
     <<"V", "E", "N", "D", "O", "R">>}

TransactionLines ==
    {d \o b \o a.text \o m :
        d \in LineDates, b \in LineBodies, a \in LineAmounts, m \in LineMarkers}

LineInputs == TransactionLines \cup OtherLines

\* the parts of a positional line: a date, a description, a value date, the
\* first amount, a gap and the balance
PositionalDate == <<"0", "1", "/", "0", "1", "/", "2", "0", "2", "4">>

ValueDate == <<"0", "2", "/", "0", "1", "/", "2", "0", "2", "4">>

\* descriptions that hold no credit keyword
NoKeywordBodies ==
    {<<" ", "S", "h", "o", "p", " ", "p", "u", "r", "c", "h", "a", "s", "e", " ">>}

\* descriptions that hold a credit keyword
CreditKeywordBodies ==
    {<<" ", "N", "E", "F", "T", " ", "s", "a", "l", "a", "r", "y", " ">>,
     <<" ", "U", "P", "I", "-", "C", "R", "E", "D", "C", "L", "U", "B", " ">>}

PositionalBodies == NoKeywordBodies \cup CreditKeywordBodies

FirstAmounts ==
    {[text |-> <<"5", "0", "0", ".", "0", "0">>, cents |-> 50000],
     [text |-> <<"1", ",", "5", "0", "0", ".", "0", "0">>, cents |-> 150000]}

Balances ==
    {[text |-> <<"1", "0", ",", "0", "0", "0", ".", "0", "0">>, cents |-> 1000000],
     [text |-> <<"5", "0", "0", ".", "0", "0">>, cents |-> 50000]}

\* the widths of the gap between the first amount and the balance
GapWidths == {1, 2, 3, 5, 8}

Spaces(n) == [k \in 1..n |-> " "]

\* the line and the arguments a caller derives from it
PositionalCall(b, first, gap, balance) ==
    [line |-> PositionalDate \o b \o ValueDate \o <<" ">> \o first.text
                \o Spaces(gap) \o balance.text,
     value_date_match |->
         [start |-> Len(PositionalDate \o b),
          end |-> Len(PositionalDate \o b \o ValueDate)],
     after_value_date |-> <<" ">> \o first.text \o Spaces(gap) \o balance.text]

PositionalCalls ==
    {PositionalCall(b, first, gap, balance) :
        b \in PositionalBodies, first \in FirstAmounts, gap \in GapWidths,
        balance \in Balances}

\* the decimals the amount texts carry at most
AmountDigits == 3

\* currency symbols, with and without a space after them
CurrencySymbols ==
    {<<"Rupee">>,
     <<"Rupee", " ">>,
     <<"$">>,
     <<"$", " ">>,
     <<"R", "s">>,
     <<"R", "s", " ">>}

AmountPrefixes == {<<>>} \cup CurrencySymbols

AmountSigns == {<<>>, <<"-">>}

\* whole units and thousandths as a value in units of 10^-AmountDigits
ValueOf(whole, thousandths) ==
    whole * 10 ^ AmountDigits + thousandths * 10 ^ (AmountDigits - 3)

\* numbers with Indian and Western grouping and their values
AmountNumbers ==
    {[text |-> <<"1", ",", "0", "0", ",", "0", "0", "0", ".", "5", "0">>, value |-> ValueOf(100000, 500)],
     [text |-> <<"1", ",", "0", "0", "0", ".", "5", "0">>, value |-> ValueOf(1000, 500)],
     [text |-> <<"1", ",", "2", "3", "4", ".", "5", "6">>, value |-> ValueOf(1234, 560)],
     [text |-> <<"1", ",", "2", "3", ",", "4", "5", "6">>, value |-> ValueOf(123456, 0)],
     [text |-> <<"5", "0", "0">>, value |-> ValueOf(500, 0)],
     [text |-> <<"0", ".", "5">>, value |-> ValueOf(0, 500)],
     [text |-> <<"1", ".", "0", "0", "4">>, value |-> ValueOf(1, 4)],
     [text |-> <<"0", ".", "9", "9", "9">>, value |-> ValueOf(0, 999)]}

\* Cr markers after an amount
CrSuffixes ==
    {<<" ", "C", "r">>,
     <<"C", "R">>,
     <<" ", "c", "r">>,
     <<"C", "r">>}

\* Dr markers after an amount
DrSuffixes ==
    {<<" ", "D", "r">>,
     <<"D", "R">>,
     <<" ", "d", "r">>}

AmountSuffixes == {<<>>} \cup CrSuffixes \cup DrSuffixes

AmountText(prefix, sign, number, suffix) == prefix \o sign \o number.text \o suffix

AmountTexts ==
    {AmountText(prefix, sign, number, suffix) :
        prefix \in AmountPrefixes, sign \in AmountSigns, number \in AmountNumbers,
        suffix \in AmountSuffixes}

\* the two-digit years
TwoDigitYears == 0..99

\* the two digits of a year
YearText(yy) == Zfill(IntToStr(yy), 2)

\* day and month of a date text as written, and as they are returned
SlashDayMonths ==
    {[text |-> <<"1", "3", "/", "0", "4", "/">>, canonical |-> <<"1", "3", "/", "0", "4", "/">>],
     [text |-> <<"1", "/", "2", "/">>, canonical |-> <<"0", "1", "/", "0", "2", "/">>]}

NamedDayMonths ==
    {[text |-> <<"0", "6", " ", "O", "c", "t", " ">>, canonical |-> <<"0", "6", "/", "1", "0", "/">>],
     [text |-> <<"6", " ", "o", "c", "t", " ">>, canonical |-> <<"0", "6", "/", "1", "0", "/">>],
     [text |-> <<"1", "5", " ", " ", "J", "A", "N", " ">>, canonical |-> <<"1", "5", "/", "0", "1", "/">>]}

\* DD/MM/YY and DD Mon YY
ShortYearDate(day_month, yy) == day_month.text \o YearText(yy)

ShortYearDates ==
    {ShortYearDate(day_month, yy) :
        day_month \in SlashDayMonths \cup NamedDayMonths, yy \in TwoDigitYears}

\* the header and the rows of a CSV text: rows of one date with the same
\* description in two spellings, with two debits, without a description, and
\* with both cells filled
CsvHeader == <<"D", "a", "t", "e", ",", "D", "e", "s", "c", "r", "i", "p", "t", "i", "o", "n", ",", "D", "e", "b", "i", "t", ",", "C", "r", "e", "d", "i", "t">>

CsvRows ==
    {<<"0", "1", "/", "0", "1", "/", "2", "0", "2", "4", ",", "S", "h", "o", "p", " ", "o", "n", "e", ",", "1", "0", "0", ".", "0", "0", ",">>,
     <<"0", "1", "/", "0", "1", "/", "2", "0", "2", "4", ",", "S", "H", "O", "P", " ", "O", "N", "E", ",", "1", "0", "0", ".", "0", "0", ",">>,
     <<"0", "1", "/", "0", "1", "/", "2", "0", "2", "4", ",", "S", "h", "o", "p", " ", "o", "n", "e", ",", "2", "5", "0", ".", "0", "0", ",">>,
     <<"0", "1", "/", "0", "1", "/", "2", "0", "2", "4", ",", ",", "1", "0", "0", ".", "0", "0", ",">>,
     <<"0", "1", "/", "0", "1", "/", "2", "0", "2", "4", ",", "S", "h", "o", "p", " ", "o", "n", "e", ",", "1", "0", "0", ".", "0", "0", ",", "2", "0", "0", ".", "0", "0">>}

\* the largest number of rows of a CSV text
MaxRows == 2

CsvTexts ==
    {<<CsvHeader>> \o rows : rows \in UNION {[1..n -> CsvRows] : n \in 1..MaxRows}}

\* the texts of the cascade: a table with a header and rows of distinct
\* days, delimited by commas (the CSV stage reads it) or by bars (only the
\* column-based strategy reads it), and lines without a table
TableDelimiters == {<<",">>, <<"|">>}

HeaderOn(delimiter) ==
    <<"D", "a", "t", "e">> \o delimiter \o <<"D", "e", "s", "c", "r", "i", "p", "t", "i", "o", "n">> \o delimiter \o <<"D", "e", "b", "i", "t">> \o delimiter \o <<"C", "r", "e", "d", "i", "t">>

\* the row of the k-th day of January 2024
RowOn(delimiter, k) ==
    Zfill(IntToStr(k), 2) \o <<"/", "0", "1", "/", "2", "0", "2", "4">> \o delimiter \o <<"S", "h", "o", "p", " ", "o", "n", "e">> \o delimiter
        \o <<"1", "0", "0", ".", "0", "0">> \o delimiter

\* a line the single-line strategy reads
SingleLine == <<"0", "1", "/", "0", "1", "/", "2", "0", "2", "4", " ", "A", "m", "a", "z", "o", "n", " ", "P", "u", "r", "c", "h", "a", "s", "e", " ", "5", "0", "0", ".", "0", "0">>

\* a line only the fallback stage reads: it is shorter than SingleLineMinLen
ShortLine == <<"0", "1", "/", "0", "1", "/", "2", "0", "2", "4", " ", "A", "b", " ", "5", ".", "0", "0">>

\* the largest number of rows of a table delimited by commas
MaxCsvRows == 6

\* the numbers of rows of a table delimited by `delimiter`: around the
\* thresholds of the stages for commas, around the threshold of the
\* strategies for bars
RowCounts(delimiter) ==
    IF delimiter = <<",">> THEN 0..MaxCsvRows
    ELSE {0, 1, AiThreshold, EnoughTransactions - 1, EnoughTransactions}

\* what follows the rows of a table
Tails == {<<>>, <<SingleLine>>}

TableText(delimiter, n, tail) ==
    <<HeaderOn(delimiter)>> \o [k \in 1..n |-> RowOn(delimiter, k)] \o tail

LineTexts == UNION {[1..n -> {SingleLine, ShortLine}] : n \in 0..2}

StageTexts ==
    UNION {{TableText(delimiter, n, tail) : n \in RowCounts(delimiter), tail \in Tails} :
              delimiter \in TableDelimiters}
      \cup LineTexts

\* the texts with amounts of zero: a line of the Indian bank format under
\* its header, a row of a CSV text, and a single line
IndianDescriptions == {<<"S", "h", "o", "p", " ", "o", "n", "e">>, <<"C", "R", "E", "D", "I", "T", " ", "I", "N", "T", "E", "R", "E", "S", "T">>, <<"N", "E", "F", "T", " ", "S", "h", "o", "p">>}

ZeroAmounts == {<<"0", ".", "0", "0">>, <<"1", "0", ".", "0", "0">>, <<"1", ",", "0", "0", "0", ".", "0", "0">>}

IndianLine(description, amount, dash) ==
    <<"1", "6", " ", "J", "u", "n", " ", "2", "0", "2", "4", " ">> \o description \o <<" ", "I", "N", "R", " ">> \o amount \o dash \o <<"I", "N", "R", " ", "4", "0", ",", "1", "7", "3", ".", "5", "6">>

IndianTexts ==
    {<<IndianHeader, IndianLine(description, amount, dash)>> :
        description \in IndianDescriptions, amount \in ZeroAmounts,
        dash \in {<<" ", "-", " ">>, <<" ">>}}

ZeroCells == ZeroAmounts \cup {<<>>, <<"-", "5", ".", "0", "0">>}

ZeroRow(debit, credit) ==
    <<"0", "1", "/", "0", "1", "/", "2", "0", "2", "4", ",", "S", "h", "o", "p", " ", "o", "n", "e", ",">> \o debit \o <<",">> \o credit

ZeroTexts ==
    IndianTexts
      \cup {<<CsvHeader, ZeroRow(debit, credit)>> : debit \in ZeroCells, credit \in {<<>>, <<"0", ".", "0", "0">>}}
      \cup {<<<<"0", "1", "/", "0", "1", "/", "2", "0", "2", "4", " ", "A", "m", "a", "z", "o", "n", " ", "P", "u", "r", "c", "h", "a", "s", "e", " ">> \o amount>> : amount \in ZeroAmounts}

\* the header lines of the column mappings: up to MaxColumns columns, each
\* one word, joined by a comma or by a space
HeaderWords == {<<"D", "a", "t", "e">>, <<"P", "o", "s", "t", "i", "n", "g">>, <<"N", "a", "r", "r", "a", "t", "i", "o", "n">>, <<"D", "e", "b", "i", "t">>, <<"C", "r", "e", "d", "i", "t">>}

\* the largest number of columns of a header line
MaxColumns == 3

\* delimiter.join(columns)
RECURSIVE JoinColumns(_, _)
JoinColumns(columns, delimiter) ==
    IF columns = <<>> THEN <<>>
    ELSE IF Len(columns) = 1 THEN columns[1]
    ELSE columns[1] \o <<delimiter>> \o JoinColumns(Tail(columns), delimiter)

HeaderCalls ==
    {[columns |-> columns, delimiter |-> delimiter] :
        columns \in UNION {[1..n -> HeaderWords] : n \in 1..MaxColumns},
        delimiter \in {",", " "}}

-----------------------------------------------------------------------------
(* Inputs of the deduplicator *)

DedupKeys == {"date", "description", "amount", "reference", "narration"}

\* a record as the parsers emit it: narration mirrors description
MkTx(cents, date, desc, ref) ==
    [has |-> DedupKeys, date |-> date, description |-> desc,
     amount |-> Num(cents), reference |-> ref, narration |-> desc]

\* a record built by a caller of the library: no narration key
MkPlainTx(cents, date, desc, ref) ==
    [has |-> DedupKeys \ {"narration"}, date |-> date, description |-> desc,
     amount |-> Num(cents), reference |-> ref, narration |-> EmptyStr]

PoolDates == {DMY(31, 12, 2023), DMY(1, 1, 2024)}

PoolDescs == {<<"a">>, <<"b">>, <<"a", "b">>}

\* the records the lists of SpecDedup are made of
TxPool ==
    {MkPlainTx(1000, dt, ds, EmptyStr) : dt \in PoolDates, ds \in PoolDescs}
      \cup {MkPlainTx(1000, DMY(1, 1, 2024), <<"a">>, <<"R", "1">>),
            MkPlainTx(1000, DMY(1, 1, 2024), <<"a">>, <<"R", "2">>),
            MkTx(1000, DMY(1, 1, 2024), <<"a", "b">>, EmptyStr),
            MkPlainTx(2500, DMY(1, 1, 2024), <<"a">>, EmptyStr)}

PairAmounts == {1000, 2500}

PairDates ==
    {DMY(31, 12, 2023), DMY(1, 1, 2024), DMY(3, 1, 2024), DMY(31, 2, 2024),
     ShortDMY(1, 1, 2024)}

PairDescs == {<<"a">>, <<"A", " ">>, <<"b">>, <<"a", "b">>}

PairRefs == {EmptyStr, <<"R", "1">>, <<"R", "2">>}

\* the records the pairs of SpecPair are made of
TxDomain ==
    {MkPlainTx(c, dt, ds, r) :
        c \in PairAmounts, dt \in PairDates, ds \in PairDescs, r \in PairRefs}
      \cup {MkTx(c, dt, ds, r) :
        c \in PairAmounts, dt \in {DMY(1, 1, 2024)}, ds \in PairDescs, r \in PairRefs}

-----------------------------------------------------------------------------
(* The deduplicator as a state machine: a caller holds a list, applies      *)
(* deduplicate_transactions to it and then to the result; and, for a list   *)
(* of two, asks is_duplicate_transaction about them.                        *)

\* no function was called
NotCalled == <<"not called">>

CallIdle == fn_name = "idle" /\ fn_arg = <<>> /\ fn_ret = NotCalled

DedupIdle ==
    /\ txs = <<>>
    /\ out = <<>>
    /\ out2 = <<>>
    /\ kept = <<>>
    /\ isdup = "none"
    /\ phase = "idle"

InitDedup ==
    /\ txs \in UNION {[1..n -> TxPool] : n \in 0..MaxTxs}
    /\ out = <<>>
    /\ out2 = <<>>
    /\ kept = <<>>
    /\ isdup = "none"
    /\ phase = "input"
    /\ ValidateIdle
    /\ ParseIdle
    /\ CallIdle

InitPair ==
    /\ txs \in [1..2 -> TxDomain]
    /\ out = <<>>
    /\ out2 = <<>>
    /\ kept = <<>>
    /\ isdup = "none"
    /\ phase = "input"
    /\ ValidateIdle
    /\ ParseIdle
    /\ CallIdle

\* result = deduplicate_transactions(transactions)
Deduplicate ==
    /\ phase = "input"
    /\ out' = deduplicate_transactions(txs)
    /\ kept' = dedup_indices(txs)
    /\ phase' = "once"
    /\ UNCHANGED <<txs, out2, isdup, validateVars, parseVars, callVars>>

\* deduplicate_transactions(result)
DeduplicateAgain ==
    /\ phase = "once"
    /\ out2' = deduplicate_transactions(out)
    /\ phase' = "twice"
    /\ UNCHANGED <<txs, out, kept, isdup, validateVars, parseVars, callVars>>

\* is_duplicate_transaction(transactions[0], transactions[1])
IsDuplicate ==
    /\ isdup = "none"
    /\ Len(txs) = 2
    /\ isdup' = IF is_duplicate_transaction(txs[1], txs[2]) THEN "true" ELSE "false"
    /\ UNCHANGED <<txs, out, out2, kept, phase, validateVars, parseVars, callVars>>

InitValidate ==
    /\ draft \in {tx \in ValidateDomain : Canonical(tx)}
    /\ vres = NoResult
    /\ DedupIdle
    /\ ParseIdle
    /\ CallIdle

\* result = validate_transaction(transaction)
Validate ==
    /\ vres = NoResult
    /\ draft # NoDraft
    /\ vres' = validate_transaction(draft)
    /\ UNCHANGED <<draft, dedupVars, parseVars, callVars>>

InitParse ==
    /\ statement \in TextPool
    /\ called = "none"
    /\ parse_options = DefaultOptions
    /\ parse_result = NoParseResult
    /\ drafts = <<>>
    /\ objects = NewInstance
    /\ DedupIdle
    /\ ValidateIdle
    /\ CallIdle

\* BankStatementParser().parse(text)
BankParse ==
    /\ called = "none"
    /\ \E text \in {statement} : \E parsed \in {bank_parse(text)} :
           /\ parse_result' = Returns(parsed.transactions, parsed.statement_type,
                                      parsed.errors, parsed.warnings)
           /\ drafts' = parsed.deduplicated
           /\ objects' = [objects EXCEPT !.errors = @ \o parsed.self_errors,
                                         !.warnings = @ \o parsed.self_warnings]
    /\ called' = "BankStatementParser.parse"
    /\ UNCHANGED <<statement, parse_options, dedupVars, validateVars, callVars>>

\* GenericStatementParser().parse(text)
GenericParse ==
    /\ called = "none"
    /\ \E text \in {statement} : \E parsed \in {generic_parse(text)} :
           /\ parse_result' = IF parsed.raised THEN Raises
                              ELSE Returns(parsed.transactions, parsed.statement_type,
                                           parsed.errors, parsed.warnings)
           /\ objects' = [objects EXCEPT
                             !.columns_detected = parsed.columns_detected,
                             !.patterns = parsed.patterns]
    /\ called' = "GenericStatementParser.parse"
    /\ UNCHANGED <<statement, parse_options, drafts, dedupVars, validateVars, callVars>>

\* StatementParser().parse_text(text, options): detect_statement_type always
\* selects the BankStatementParser
ParseText ==
    /\ called = "none"
    /\ \E text \in {statement} : \E statement_type \in {detect_statement_type(text)} :
       \E parser \in {select_parser(statement_type)} :
           /\ parser = "BankStatementParser"
           /\ \E parsed \in {bank_parse(text)} : \E o \in OptionsDomain :
              \E final \in {finish_parse_text(parsed, statement_type, o)} :
                  /\ parse_options' = o
                  /\ parse_result' = Returns(final.transactions, final.statement_type,
                                             final.errors, final.warnings)
                  /\ drafts' = parsed.deduplicated
                  /\ objects' = [objects EXCEPT
                                    !.errors = @ \o parsed.self_errors,
                                    !.warnings = @ \o parsed.self_warnings,
                                    !.last_parser_used = <<parser>>,
                                    !.last_statement_type = <<statement_type>>]
    /\ called' = "StatementParser.parse_text"
    /\ UNCHANGED <<statement, dedupVars, validateVars, callVars>>

\* detect_statement_type(text)
Detect ==
    /\ called = "none"
    /\ parse_result' = Returns(<<>>, detect_statement_type(statement), <<>>, <<>>)
    /\ called' = "detect_statement_type"
    /\ UNCHANGED <<statement, parse_options, drafts, objects, dedupVars, validateVars, callVars>>

NextParse == BankParse \/ GenericParse \/ ParseText \/ Detect

SpecParse == InitParse /\ [][NextParse]_vars

NextDedup == Deduplicate \/ DeduplicateAgain

NextPair == IsDuplicate \/ Deduplicate \/ DeduplicateAgain

SpecDedup == InitDedup /\ [][NextDedup]_vars

SpecPair == InitPair /\ [][NextPair]_vars

NextValidate == Validate

SpecValidate == InitValidate /\ [][NextValidate]_vars

\* ParseResult(transactions=..., statement_type="bank", raw_text="")
InitSummary ==
    /\ fn_name = "none"
    /\ \E transactions \in UNION {[1..n -> SummaryPool] : n \in 0..MaxSummaryTxs} :
           fn_arg = [transactions |-> transactions, statement_type |-> "bank",
                     errors |-> <<>>, warnings |-> <<>>]
    /\ fn_ret = NotCalled
    /\ DedupIdle
    /\ ValidateIdle
    /\ ParseIdle

\* summary = result.get_summary()
GetSummary ==
    /\ fn_name = "none"
    /\ fn_name' = "get_summary"
    /\ fn_ret' = get_summary(fn_arg)
    /\ UNCHANGED <<fn_arg, dedupVars, validateVars, parseVars>>

NextSummary == GetSummary

SpecSummary == InitSummary /\ [][NextSummary]_vars

InitLine ==
    /\ fn_name = "none"
    /\ fn_arg \in LineInputs
    /\ fn_ret = NotCalled
    /\ DedupIdle
    /\ ValidateIdle
    /\ ParseIdle

\* match = parse_generic_line(line)
ParseGenericLine ==
    /\ fn_name = "none"
    /\ fn_name' = "parse_generic_line"
    /\ fn_ret' = parse_generic_line(fn_arg)
    /\ UNCHANGED <<fn_arg, dedupVars, validateVars, parseVars>>

\* is_skip_line(line) of patterns/generic.py
IsSkipLine ==
    /\ fn_name = "none"
    /\ fn_name' = "is_skip_line"
    /\ fn_ret' = is_skip_line(fn_arg)
    /\ UNCHANGED <<fn_arg, dedupVars, validateVars, parseVars>>

\* self._is_skip_line(line) of a parser
BaseIsSkipLine ==
    /\ fn_name = "none"
    /\ fn_name' = "BaseParser._is_skip_line"
    /\ fn_ret' = base_is_skip_line(fn_arg)
    /\ UNCHANGED <<fn_arg, dedupVars, validateVars, parseVars>>

NextLine == ParseGenericLine \/ IsSkipLine \/ BaseIsSkipLine

SpecLine == InitLine /\ [][NextLine]_vars

\* the parsers called with a text of one line
InitCascade ==
    /\ statement \in {<<line>> : line \in TransactionLines}
    /\ called = "none"
    /\ parse_options = DefaultOptions
    /\ parse_result = NoParseResult
    /\ drafts = <<>>
    /\ objects = NewInstance
    /\ DedupIdle
    /\ ValidateIdle
    /\ CallIdle

NextCascade == BankParse \/ ParseText

SpecCascade == InitCascade /\ [][NextCascade]_vars

\* a positional line given to the two methods and to the parser
InitPositional ==
    /\ fn_name = "none"
    /\ fn_arg \in PositionalCalls
    /\ fn_ret = NotCalled
    /\ statement = <<fn_arg.line>>
    /\ called = "none"
    /\ parse_options = DefaultOptions
    /\ parse_result = NoParseResult
    /\ drafts = <<>>
    /\ objects = NewInstance
    /\ DedupIdle
    /\ ValidateIdle

\* self._is_credit_transaction(line, value_date_match, after_value_date)
IsCreditTransaction ==
    /\ fn_name = "none"
    /\ fn_name' = "_is_credit_transaction"
    /\ fn_ret' = is_credit_transaction(fn_arg.line, fn_arg.value_date_match,
                                       fn_arg.after_value_date)
    /\ UNCHANGED <<fn_arg, dedupVars, validateVars, parseVars>>

\* self._extract_transaction_amounts(after_value_date, is_credit)
ExtractTransactionAmounts ==
    /\ fn_name = "none"
    /\ fn_name' = "_extract_transaction_amounts"
    /\ \E is_credit \in BOOLEAN :
           fn_ret' = [is_credit |-> is_credit,
                      amounts |-> extract_transaction_amounts(fn_arg.after_value_date,
                                                              is_credit)]
    /\ UNCHANGED <<fn_arg, dedupVars, validateVars, parseVars>>

NextPositional == IsCreditTransaction \/ ExtractTransactionAmounts \/ BankParse

SpecPositional == InitPositional /\ [][NextPositional]_vars

\* an amount text given to parse_amount
InitAmount ==
    /\ fn_name = "none"
    /\ fn_arg \in AmountTexts
    /\ fn_ret = NotCalled
    /\ DedupIdle
    /\ ValidateIdle
    /\ ParseIdle

\* parse_amount(amount_str)
ParseAmount ==
    /\ fn_name = "none"
    /\ fn_name' = "parse_amount"
    /\ fn_ret' = parse_amount_digits(fn_arg, AmountDigits)
    /\ UNCHANGED <<fn_arg, dedupVars, validateVars, parseVars>>

\* parse_amount(format_amount(parse_amount(amount_str)))
FormatAndParse ==
    /\ fn_name = "none"
    /\ fn_name' = "parse_amount(format_amount(parse_amount))"
    /\ fn_ret' = Let(parse_amount_digits(fn_arg, AmountDigits), LAMBDA parsed :
                 Let(format_amount(parsed, AmountDigits), LAMBDA formatted :
                     [parsed |-> parsed,
                      formatted |-> formatted,
                      reparsed |-> parse_amount_digits(formatted, AmountDigits)]))
    /\ UNCHANGED <<fn_arg, dedupVars, validateVars, parseVars>>

NextAmount == ParseAmount \/ FormatAndParse

SpecAmount == InitAmount /\ [][NextAmount]_vars

\* a date text with a two-digit year given to parse_date and extract_date
InitDate ==
    /\ fn_name = "none"
    /\ fn_arg \in ShortYearDates
    /\ fn_ret = NotCalled
    /\ DedupIdle
    /\ ValidateIdle
    /\ ParseIdle

\* parse_date(date_str)
ParseDate ==
    /\ fn_name = "none"
    /\ fn_name' = "parse_date"
    /\ fn_ret' = parse_date(fn_arg)
    /\ UNCHANGED <<fn_arg, dedupVars, validateVars, parseVars>>

\* extract_date(line)
ExtractDate ==
    /\ fn_name = "none"
    /\ fn_name' = "extract_date"
    /\ fn_ret' = extract_date(fn_arg)
    /\ UNCHANGED <<fn_arg, dedupVars, validateVars, parseVars>>

NextDate == ParseDate \/ ExtractDate

SpecDate == InitDate /\ [][NextDate]_vars

\* the parsers called with a CSV text
InitRows ==
    /\ statement \in CsvTexts
    /\ called = "none"
    /\ parse_options = DefaultOptions
    /\ parse_result = NoParseResult
    /\ drafts = <<>>
    /\ objects = NewInstance
    /\ DedupIdle
    /\ ValidateIdle
    /\ CallIdle

NextRows == BankParse \/ ParseText

SpecRows == InitRows /\ [][NextRows]_vars

\* the parsers called with a text of the cascade
InitStages ==
    /\ statement \in StageTexts
    /\ called = "none"
    /\ parse_options = DefaultOptions
    /\ parse_result = NoParseResult
    /\ drafts = <<>>
    /\ objects = NewInstance
    /\ DedupIdle
    /\ ValidateIdle
    /\ CallIdle

NextStages == BankParse \/ ParseText

SpecStages == InitStages /\ [][NextStages]_vars

\* the parsers called with a text whose amounts may be zero
InitZero ==
    /\ statement \in ZeroTexts
    /\ called = "none"
    /\ parse_options = DefaultOptions
    /\ parse_result = NoParseResult
    /\ drafts = <<>>
    /\ objects = NewInstance
    /\ DedupIdle
    /\ ValidateIdle
    /\ CallIdle

NextZero == BankParse \/ ParseText

SpecZero == InitZero /\ [][NextZero]_vars

\* a header line given to the three column mappings
InitColumns ==
    /\ fn_name = "none"
    /\ fn_arg \in HeaderCalls
    /\ fn_ret = NotCalled
    /\ DedupIdle
    /\ ValidateIdle
    /\ ParseIdle

\* GenericStatementParser._map_columns(header_line, header_keywords, delimiter)
GenericMapColumns ==
    /\ fn_name = "none"
    /\ fn_name' = "GenericStatementParser._map_columns"
    /\ fn_ret' = generic_map_columns(JoinColumns(fn_arg.columns, fn_arg.delimiter),
                                     fn_arg.delimiter)
    /\ UNCHANGED <<fn_arg, dedupVars, validateVars, parseVars>>

\* BankStatementParser._map_columns(lines, delimiter): _detect_delimiter
\* never gives a space
BankMapColumns ==
    /\ fn_name = "none"
    /\ fn_arg.delimiter = ","
    /\ fn_name' = "BankStatementParser._map_columns"
    /\ fn_ret' = map_columns(<<JoinColumns(fn_arg.columns, fn_arg.delimiter)>>,
                             fn_arg.delimiter, 1, NoColumns)
    /\ UNCHANGED <<fn_arg, dedupVars, validateVars, parseVars>>

\* the mapping _parse_csv makes of a header line
CsvMapColumns ==
    /\ fn_name = "none"
    /\ fn_arg.delimiter = ","
    /\ fn_name' = "BankStatementParser._parse_csv"
    /\ fn_ret' = csv_map_line(JoinColumns(fn_arg.columns, fn_arg.delimiter), 1, NoColumns)
    /\ UNCHANGED <<fn_arg, dedupVars, validateVars, parseVars>>

NextColumns == GenericMapColumns \/ BankMapColumns \/ CsvMapColumns

SpecColumns == InitColumns /\ [][NextColumns]_vars

-----------------------------------------------------------------------------
(* Claims about the deduplicator *)

\* C1: deduplicate_transactions is idempotent: applied to its own result it
\* returns the same records in the same order.
C1_Idempotent == phase = "twice" => out2 = out

\* a run in which duplicates were removed and several records remain
C1_Witness == phase = "twice" /\ Len(out) < Len(txs) /\ Len(out) >= 2

StrictlyIncreasing(seq) == \A k \in 1..(Len(seq) - 1) : seq[k] < seq[k + 1]

\* C2: deduplicate_transactions is stable: the retained records keep their
\* relative input order (the result is a subsequence of the input).
C2_Stable == phase # "input" => StrictlyIncreasing(kept)

Retained(i) == \E k \in 1..Len(kept) : kept[k] = i

\* C3: first occurrence wins: a removed record is matched by a retained
\* record that occurs earlier in the input.
C3_FirstOccurrenceWins ==
    phase # "input" =>
        \A i \in 1..Len(txs) :
            ~Retained(i) =>
                \E j \in 1..(i - 1) :
                    Retained(j) /\ is_duplicate_transaction(txs[i], txs[j])

RefOf(tx) == Strip(Get(tx, "reference", EmptyStr))

DateOf(tx) == parse_date_for_dedup(Get(tx, "date", EmptyDate))

\* equal amount, equal descriptions, no reference numbers, dates at most one
\* day apart
NearDuplicates(tx1, tx2) ==
    /\ tx1.amount = tx2.amount
    /\ tx1.description = tx2.description
    /\ RefOf(tx1) = EmptyStr /\ RefOf(tx2) = EmptyStr
    /\ DateOf(tx1) # NoDate /\ DateOf(tx2) # NoDate
    /\ Abs(DateOf(tx1) - DateOf(tx2)) <= 1

\* C4: two records with equal amount, equal descriptions, no references and
\* dates at most one day apart are collapsed into one record.
C4_NearDuplicatesCollapse ==
    (phase # "input" /\ Len(txs) = 2 /\ NearDuplicates(txs[1], txs[2]))
        => Len(out) = 1

\* both records carry a reference number and the two numbers differ
DistinctRefs(tx1, tx2) ==
    /\ RefOf(tx1) # EmptyStr
    /\ RefOf(tx2) # EmptyStr
    /\ RefOf(tx1) # RefOf(tx2)

\* C5: is_duplicate_transaction is false for two records with different
\* non-empty reference numbers, whatever their other fields, and
\* deduplicate_transactions keeps both.
C5_DistinctRefsNeverDuplicate ==
    (Len(txs) = 2 /\ DistinctRefs(txs[1], txs[2])) =>
        /\ isdup # "true"
        /\ phase # "input" => Len(out) = 2

\* two records that differ in nothing but the reference number, both asked
\* about and deduplicated
C5_Witness ==
    /\ Len(txs) = 2
    /\ DistinctRefs(txs[1], txs[2])
    /\ txs[1].amount = txs[2].amount
    /\ txs[1].date = txs[2].date
    /\ DateOf(txs[1]) # NoDate
    /\ txs[1].description = txs[2].description
    /\ isdup = "false"
    /\ phase # "input"
    /\ Len(out) = 2

-----------------------------------------------------------------------------
(* Claims about the parse pipelines *)

ParseCalls ==
    {"BankStatementParser.parse", "GenericStatementParser.parse",
     "StatementParser.parse_text"}

\* C6: StatementParser.parse_text, BankStatementParser.parse and
\* GenericStatementParser.parse return a ParseResult for every text and raise
\* no exception.
C6_ParseAlwaysReturns ==
    called \in ParseCalls => parse_result.status = "returned"

\* the text holds one of the header phrases `keywords`, in any case
CarriesHeader(text, keywords) ==
    \E kw \in keywords : Contains(Lower(join_lines(text)), kw)

\* the statement type the header phrases of the text indicate: the type whose
\* phrases the text carries when it carries those of one type only, "unknown"
\* when it carries none
IndicatedTypes(text) ==
    {t \in {"bank", "credit_card", "upi"} :
        CarriesHeader(text, CASE t = "bank" -> BankHeaderKeywords
                              [] t = "credit_card" -> CreditCardHeaderKeywords
                              [] t = "upi" -> UpiHeaderKeywords)}

\* C7: detect_statement_type returns the type the text indicates: credit_card,
\* upi or bank for a text that carries the header phrases of that type, and
\* unknown for a text without financial indicators.
C7_DetectsIndicatedType ==
    called = "detect_statement_type" =>
        /\ IndicatedTypes(statement) = {} => parse_result.statement_type = "unknown"
        /\ \A t \in {"bank", "credit_card", "upi"} :
               IndicatedTypes(statement) = {t} => parse_result.statement_type = t

\* a draft of the call was excluded by validation
SomeDraftExcluded ==
    \E k \in 1..Len(drafts) : ~validate_transaction(drafts[k]).is_valid

\* C8: the ParseResult of a parse carries in errors the hard validation
\* failures of the drafts that were excluded: when a draft is excluded by
\* validation, errors is not empty.
C8_ExcludedDraftsReported ==
    (called \in {"BankStatementParser.parse", "StatementParser.parse_text"}
       /\ SomeDraftExcluded)
        => parse_result.errors # <<>>

\* the 'Invalid transaction: ...' strings among the warnings
InvalidWarnings(warnings) ==
    SelectSeq(warnings, LAMBDA w : w.msg = "Invalid transaction")

\* C9: BankStatementParser.parse handles every deduplicated draft exactly
\* once: a draft that passes validation is returned, any other is left out and
\* recorded as one 'Invalid transaction' warning, so that the returned
\* transactions and these warnings together number the drafts.
C9_EveryDraftHandledOnce ==
    called = "BankStatementParser.parse" =>
        /\ parse_result.transactions
             = SelectSeq(drafts, LAMBDA tx : validate_transaction(tx).is_valid)
        /\ InvalidWarnings(parse_result.warnings)
             = [k \in 1..Len(InvalidWarnings(parse_result.warnings)) |->
                    invalid_transaction_warning(
                        SelectSeq(drafts,
                                  LAMBDA tx : ~validate_transaction(tx).is_valid)[k])]
        /\ Len(parse_result.transactions)
             + Len(InvalidWarnings(parse_result.warnings)) = Len(drafts)

\* a parse with a draft that was returned and a draft that was excluded
C9_Witness ==
    /\ called = "BankStatementParser.parse"
    /\ Len(parse_result.transactions) >= 1
    /\ Len(InvalidWarnings(parse_result.warnings)) >= 1
    /\ Len(drafts) >= 2

-----------------------------------------------------------------------------
(* Claims about the validator *)

\* the hard errors: date missing, description missing or shorter than three
\* characters after trimming, amount not numeric, amount and debit and credit
\* all absent
HardError(tx) ==
    \/ "date" \notin tx.has \/ tx.date = EmptyDate
    \/ "description" \notin tx.has
    \/ Len(Strip(tx.description)) < 3
    \/ "amount" \in tx.has /\ ~tx.amount.num
    \/ {"amount", "debit", "credit"} \cap tx.has = {}

\* C10: validate_transaction returns is_valid = false exactly when the draft
\* has a hard error, and is_valid is true exactly when errors is empty.
C10_ValidIffNoHardError ==
    vres # NoResult =>
        /\ vres.is_valid = ~HardError(draft)
        /\ vres.is_valid = (vres.errors = <<>>)

\* a draft found valid although it drew warnings
C10_Witness ==
    /\ vres # NoResult
    /\ vres.is_valid
    /\ Len(vres.warnings) >= 2

Warned(msg) == \E k \in 1..Len(vres.warnings) : vres.warnings[k] = msg

\* C11: validate_transaction keeps a record without a hard error valid and
\* emits a warning for each soft issue: amount exactly zero, absolute amount
\* above 10,000,000, date not of the form DD/MM/YYYY, and debit and credit
\* both zero while an amount field is present.
C11_SoftIssuesWarned ==
    (vres # NoResult /\ ~HardError(draft)) =>
        /\ vres.is_valid
        /\ ("amount" \in draft.has /\ draft.amount.v = 0) => Warned("Amount is zero")
        /\ ("amount" \in draft.has /\ Abs(draft.amount.v) > LargeAmount)
               => Warned("unusually large amount")
        /\ ~matches_date_format(draft.date)
               => Warned("Date may not be in correct format")
        /\ ("amount" \in draft.has
              /\ {"debit", "credit"} \subseteq draft.has
              /\ draft.debit = 0 /\ draft.credit = 0)
               => Warned("Both debit and credit are zero")

-----------------------------------------------------------------------------
(* Claims about the summary *)

\* a record whose credit and debit are both zero or absent and that has an
\* amount
OnlyAmount(tx) ==
    /\ "credit" \in tx.has => tx.credit = 0
    /\ "debit" \in tx.has => tx.debit = 0
    /\ "amount" \in tx.has

CreditOf(tx) ==
    IF OnlyAmount(tx)
    THEN (IF "type" \in tx.has /\ tx.type = <<"c", "r", "e", "d", "i", "t">>
          THEN tx.amount ELSE 0)
    ELSE IF "credit" \in tx.has THEN tx.credit ELSE 0

DebitOf(tx) ==
    IF OnlyAmount(tx)
    THEN (IF "type" \in tx.has /\ tx.type = <<"c", "r", "e", "d", "i", "t">>
          THEN 0 ELSE tx.amount)
    ELSE IF "debit" \in tx.has THEN tx.debit ELSE 0

RECURSIVE SumCredits(_)
SumCredits(transactions) ==
    IF transactions = <<>> THEN 0
    ELSE CreditOf(Head(transactions)) + SumCredits(Tail(transactions))

RECURSIVE SumDebits(_)
SumDebits(transactions) ==
    IF transactions = <<>> THEN 0
    ELSE DebitOf(Head(transactions)) + SumDebits(Tail(transactions))

\* C12: get_summary returns the number of transactions, the sum of the
\* credits, the sum of the debits (a record with only an amount counts it as
\* a credit when its type is 'credit' and as a debit otherwise) and
\* net_amount = total_credits - total_debits.
C12_SummaryTotals ==
    fn_name = "get_summary" =>
        /\ fn_ret.total_transactions = Len(fn_arg.transactions)
        /\ fn_ret.total_credits = SumCredits(fn_arg.transactions)
        /\ fn_ret.total_debits = SumDebits(fn_arg.transactions)
        /\ fn_ret.net_amount = fn_ret.total_credits - fn_ret.total_debits

\* a summary over a record with explicit sides and a record whose amount
\* counts as a credit
C12_Witness ==
    /\ fn_name = "get_summary"
    /\ \E i, j \in 1..Len(fn_arg.transactions) :
           /\ ~OnlyAmount(fn_arg.transactions[i])
           /\ fn_arg.transactions[i].debit > 0
           /\ OnlyAmount(fn_arg.transactions[j])
           /\ CreditOf(fn_arg.transactions[j]) > 0
    /\ fn_ret.total_credits > 0
    /\ fn_ret.total_debits > 0

-----------------------------------------------------------------------------
(* Claims about the line functions *)

\* C13: a transaction line that starts with a date and whose trailing amount
\* is followed by a CR marker yields a draft whose amount is the trailing
\* amount and whose type is credit.
C13_TrailingCrIsCredit ==
    fn_name = "parse_generic_line" =>
        \A d \in LineDates, b \in PlainBodies, a \in LineAmounts, m \in CrMarkers :
            fn_arg = d \o b \o a.text \o m =>
                /\ fn_ret # NoTransaction
                /\ fn_ret # AttributeError
                /\ fn_ret.amount = a.cents
                /\ type_of(fn_ret.is_credit) = "credit"

\* the dates of the form DD/MM/YYYY
FullDates == {d \in LineDates : Len(d) = 10}

\* the bodies that are a description: no boilerplate keyword, no number
DescriptionBodies ==
    {b \in PlainBodies : \A i \in 1..Len(b) : b[i] \notin Digits}

C15_PositionalAmounts ==
    \A b \in PositionalBodies, first \in FirstAmounts, gap \in GapWidths,
       balance \in Balances :
        fn_arg = PositionalCall(b, first, gap, balance) =>
            /\ fn_name = "_is_credit_transaction" =>
                   /\ gap >= 5 => fn_ret
                   /\ (gap <= 2 /\ b \in NoKeywordBodies) => ~fn_ret
            /\ fn_name = "_extract_transaction_amounts" =>
                   fn_ret.amounts = IF fn_ret.is_credit THEN <<0, first.cents>>
                                    ELSE <<first.cents, 0>>
            /\ called = "BankStatementParser.parse" =>
                   /\ Len(parse_result.transactions) = 1
                   /\ parse_result.transactions[1].balance = balance.cents
                   /\ parse_result.transactions[1].debit
                        + parse_result.transactions[1].credit = first.cents
                   /\ gap >= 5 => parse_result.transactions[1].type = "credit"
                   /\ (gap <= 2 /\ b \in NoKeywordBodies)
                          => parse_result.transactions[1].type = "debit"

-----------------------------------------------------------------------------
(* Claims about the amounts *)

\* C16: parse_amount recognises a trailing Cr/Dr marker case-insensitively:
\* an amount string followed by Dr (and no Cr) gives the negated numeric
\* value, an amount string followed by Cr ('1,234.56 Cr', '1,234.56CR') the
\* positive numeric value.
C16_MarkerGivesSign ==
    \A prefix \in AmountPrefixes, number \in AmountNumbers :
        /\ \A suffix \in CrSuffixes :
               (fn_name = "parse_amount"
                  /\ fn_arg = AmountText(prefix, <<>>, number, suffix))
                 => fn_ret = number.value
        /\ \A suffix \in DrSuffixes :
               (fn_name = "parse_amount"
                  /\ fn_arg = AmountText(prefix, <<>>, number, suffix))
                 => fn_ret = 0 - number.value

\* C17: for an amount string made of an optional currency symbol, optional
\* whitespace, digits with Indian or Western comma grouping and an optional
\* decimal part, parse_amount returns the numeric value left when the
\* currency symbol, the whitespace and the commas of the integer part are
\* removed: '1,00,000.50' gives 100000.50 and '1,000.50' gives 1000.50.
C17_GroupedAmountValue ==
    \A prefix \in AmountPrefixes, number \in AmountNumbers :
        (fn_name = "parse_amount"
           /\ fn_arg = AmountText(prefix, <<>>, number, <<>>))
          => fn_ret = number.value

C17_Witness ==
    /\ fn_name = "parse_amount"
    /\ fn_arg = <<"Rupee", " ", "1", ",", "0", "0", ",", "0", "0", "0", ".", "5", "0">>
    /\ fn_ret = ValueOf(100000, 500)

\* C18: parse_amount is idempotent on its own canonical output: for every
\* input x, parse_amount(format_amount(parse_amount(x))) equals
\* parse_amount(x), negative values and values with more than two decimal
\* digits included.
C18_ParseFormatParse ==
    fn_name = "parse_amount(format_amount(parse_amount))"
        => fn_ret.reparsed = fn_ret.parsed

-----------------------------------------------------------------------------
(* Claims about the dates *)

\* C19: parse_date expands every two-digit year YY (00 to 99) of a DD/MM/YY
\* or DD Mon YY input to a four-digit year with pivot 50: YY < 50 gives 20YY
\* and YY >= 50 gives 19YY, so the returned string always has a four-digit
\* year.
C19_TwoDigitYearPivot ==
    \A day_month \in SlashDayMonths \cup NamedDayMonths, yy \in TwoDigitYears :
        (fn_name \in {"parse_date", "extract_date"}
           /\ fn_arg = ShortYearDate(day_month, yy))
          => fn_ret = day_month.canonical
                        \o (IF yy < 50 THEN <<"2", "0">> ELSE <<"1", "9">>)
                        \o YearText(yy)

-----------------------------------------------------------------------------
(* Claims about the skip checks *)

\* a keyword of the set stands in the line as a whole word
HasKeywordAsWord(line, keywords) ==
    \E keyword \in keywords : keyword_in_line(Lower(line), keyword)

\* a keyword of the set stands in the line, and none as a whole word
HasKeywordOnlyInsideWords(line, keywords) ==
    /\ \E keyword \in keywords : Contains(Lower(line), keyword)
    /\ ~HasKeywordAsWord(line, keywords)

\* C20: the line classifier skips a line on account of a boilerplate keyword
\* only when the keyword occurs as a whole word: a line in which a keyword
\* occurs only as a substring of a longer word ('credit' versus 'CREDCLUB',
\* 'end' inside 'VENDOR') and that matches no decorative pattern is not
\* skipped, in every parser's skip check.
C20_KeywordAsWholeWord ==
    /\ (fn_name = "is_skip_line"
          /\ HasKeywordOnlyInsideWords(fn_arg, SKIP_KEYWORDS)
          /\ ~matches_skip_pattern(Strip(fn_arg)))
         => fn_ret = FALSE
    /\ (fn_name = "BaseParser._is_skip_line"
          /\ HasKeywordOnlyInsideWords(fn_arg, BaseHeaderKeywords)
          /\ ~matches_skip_pattern(Strip(fn_arg))
          /\ Len(fn_arg) >= BaseSkipLineLen)
         => fn_ret = FALSE

-----------------------------------------------------------------------------
(* Claims about the pipeline after the extraction *)

\* the drafts the extraction stages of BankStatementParser.parse collect from
\* the text of the call
Extracted == bank_parse(statement).extracted

\* the draft passes validation
IsValid(tx) == validate_transaction(tx).is_valid


\* the number of entries of the list that equal the draft
Occurrences(transactions, tx) ==
    Cardinality({k \in 1..Len(transactions) : transactions[k] = tx})

\* the draft as the call returns it: parse_text normalizes on request
AsReturned(tx) ==
    IF called = "StatementParser.parse_text" /\ parse_options.normalize
    THEN normalize_one(tx) ELSE tx

\* the call returns the draft
Appears(tx) == Occurrences(parse_result.transactions, AsReturned(tx)) > 0

\* a call of one of the two parse methods has returned
Parsed == called \in {"BankStatementParser.parse", "StatementParser.parse_text"}

\* C21: when ParseOptions.deduplicate is False, parse_text performs no
\* duplicate removal: every draft that passes validation appears in the
\* returned transactions, also when two drafts are duplicates of each other.
C21_NoDedupKeepsAllValid ==
    (called = "StatementParser.parse_text" /\ ~parse_options.deduplicate)
        => Let(Extracted, LAMBDA extracted :
               \A k \in 1..Len(extracted) :
                   IsValid(extracted[k]) => Appears(extracted[k]))

\* C26: validation is applied to drafts before deduplication, so a draft that
\* fails validation never causes a draft that passes validation to be
\* removed: every valid draft either appears in the parse result or is a
\* duplicate of a valid draft that appears in it.
C26_ValidDraftsSurvive ==
    Parsed
        => Let(Extracted, LAMBDA extracted :
               \A k \in 1..Len(extracted) :
                   IsValid(extracted[k])
                       => \/ Appears(extracted[k])
                          \/ \E m \in 1..Len(extracted) :
                                 /\ IsValid(extracted[m])
                                 /\ Appears(extracted[m])
                                 /\ is_duplicate_transaction(extracted[k], extracted[m]))

\* the two drafts have the date and the description in common, and debits
\* or credits that differ by more than 0.01
DifferInAmount(tx1, tx2) ==
    /\ tx1.date = tx2.date
    /\ tx1.description = tx2.description
    /\ \/ Abs(tx1.debit - tx2.debit) > AmountTolerance
       \/ Abs(tx1.credit - tx2.credit) > AmountTolerance

\* C27: deduplication never collapses two transactions whose monetary amounts
\* differ by more than 0.01: two drafts with the same date and description
\* but different debit (or credit) values, drafts that carry only debit and
\* credit and no amount field included, are both retained by
\* BankStatementParser.parse and by parse_text.
C27_DifferentAmountsRetained ==
    Parsed
        => Let(Extracted, LAMBDA extracted :
               \A k, m \in 1..Len(extracted) :
                   (IsValid(extracted[k]) /\ IsValid(extracted[m])
                      /\ DifferInAmount(extracted[k], extracted[m]))
                     => Appears(extracted[k]) /\ Appears(extracted[m]))

-----------------------------------------------------------------------------
(* Claims about the drafts of the extraction *)

\* C28: in every draft emitted by an extraction strategy debit and credit are
\* mutually exclusive: at most one of the two is non-zero, also for a CSV row
\* in which both the debit cell and the credit cell are populated.
C28_DebitCreditExclusive ==
    Parsed
        => Let(Extracted, LAMBDA extracted :
               \A k \in 1..Len(extracted) :
                   extracted[k].debit = 0 \/ extracted[k].credit = 0)

-----------------------------------------------------------------------------
(* Claims about the cascade of extraction strategies *)

\* `lines` of _parse_adaptive: the stripped non-empty lines of the text
AdaptiveLines == SelectSeq(List([i \in 1..Len(statement) |-> Strip(statement[i])]), LAMBDA l : l # <<>>)

\* what the CSV stage of BankStatementParser.parse adds to `transactions`
CsvDrafts ==
    IF (\E i \in 1..Len(statement) : Contains(statement[i], <<",">>)) /\ has_csv_structure(statement)
    THEN parse_csv(statement) ELSE <<>>

\* C24: strategies compose by pure accumulation and nothing is suppressed
\* inside the cascade: when the adaptive stage runs after the CSV stage, every
\* draft its first strategy (column-based) produces is in the extracted list
\* once for each time the CSV stage produced it and once more for each time
\* the column-based strategy produced it.
C24_PureAccumulation ==
    (Parsed /\ Len(CsvDrafts) < AdaptiveThreshold) =>
        Let(Extracted, LAMBDA extracted :
        Let(CsvDrafts, LAMBDA csv :
        Let(parse_column_based(AdaptiveLines).transactions, LAMBDA column :
            \A k \in 1..Len(column) :
                Occurrences(extracted, column[k])
                    >= Occurrences(csv, column[k]) + Occurrences(column, column[k]))))

-----------------------------------------------------------------------------
(* Claims about the objects after a call *)

\* C22: a parse call leaves no state behind: after
\* StatementParser.parse_text returns, the error and warning lists of the
\* format parser are as they were before the call, which was made on new
\* objects.
C22_NoStateLeftBehind ==
    called = "StatementParser.parse_text" =>
        /\ objects.errors = NewInstance.errors
        /\ objects.warnings = NewInstance.warnings

-----------------------------------------------------------------------------
(* Claims about a stage that raises *)

\* the fallback stage of BankStatementParser.parse ran on the text and raised:
\* the stages before it found nothing and _parse_generic_fallback raises
FallbackRaised ==
    /\ CsvDrafts = <<>>
    /\ parse_adaptive(statement).transactions = <<>>
    /\ parse_generic_fallback(statement).raised

-----------------------------------------------------------------------------
(* Claims about the order and the thresholds of the cascade *)

\* the stages of BankStatementParser.parse and the strategies of
\* _parse_adaptive in the order of the code
StageOrder ==
    <<"_parse_csv", "_parse_adaptive", "_parse_with_ai", "_parse_generic_fallback">>

StrategyOrder ==
    <<"_parse_column_based", "_parse_multiline_transactions",
      "_parse_single_line_transactions">>

\* the entry is in the list
Ran(ran, name) == \E k \in 1..Len(ran) : ran[k] = name

\* the entries of the list are distinct and follow the order
InOrder(ran, order) ==
    \A i, j \in 1..Len(ran) :
        i < j => \E k, l \in 1..Len(order) : k < l /\ order[k] = ran[i] /\ order[l] = ran[j]

\* the number of drafts after the adaptive stage
AfterAdaptive ==
    Len(CsvDrafts)
      + (IF Len(CsvDrafts) < 5 THEN Len(parse_adaptive(statement).transactions) ELSE 0)

\* the drafts _parse_adaptive holds after the column-based strategy and after
\* the multi-line strategy
AfterColumn == add_unique(<<>>, parse_column_based(AdaptiveLines).transactions, 1)

AfterMultiline ==
    IF Len(AfterColumn) < 20
    THEN add_unique(AfterColumn, parse_multiline_transactions(AdaptiveLines).transactions, 1)
    ELSE AfterColumn

\* C23: the stages run in a fixed order and by threshold: the adaptive stage
\* runs iff fewer than 5 drafts exist after the CSV stage, the AI hook iff
\* fewer than 3 exist after the adaptive stage, the fallback iff none exists
\* after the AI hook (which adds none); inside the adaptive stage the
\* column-based, multi-line and single-line strategies run in this order,
\* each iff fewer than 20 drafts are accumulated before it.
C23_StagesByThreshold ==
    Parsed =>
        Let(bank_parse(statement), LAMBDA parsed :
        Let(AfterAdaptive, LAMBDA after_adaptive :
            /\ InOrder(parsed.stages, StageOrder)
            /\ InOrder(parsed.strategies, StrategyOrder)
            /\ Ran(parsed.stages, "_parse_adaptive") <=> Len(CsvDrafts) < 5
            /\ Ran(parsed.stages, "_parse_with_ai") <=> after_adaptive < 3
            /\ Ran(parsed.stages, "_parse_generic_fallback") <=> after_adaptive = 0
            /\ Ran(parsed.stages, "_parse_adaptive") =>
                   /\ Ran(parsed.strategies, "_parse_column_based")
                   /\ Ran(parsed.strategies, "_parse_multiline_transactions")
                          <=> Len(AfterColumn) < 20
                   /\ Ran(parsed.strategies, "_parse_single_line_transactions")
                          <=> Len(AfterMultiline) < 20
            /\ ~Ran(parsed.stages, "_parse_adaptive") => parsed.strategies = <<>>))

\* a call on a text whose column-based strategy alone reaches 20 drafts, so
\* that the two strategies after it are skipped, as are the AI hook and the
\* fallback
C23_Witness ==
    /\ Parsed
    /\ bank_parse(statement).stages = <<"_parse_adaptive">>
    /\ bank_parse(statement).strategies = <<"_parse_column_based">>
    /\ Len(AfterColumn) = 20

\* a call on a text whose CSV stage finds 5 drafts, so that no later stage
\* runs
CsvStageOnly ==
    /\ Parsed
    /\ bank_parse(statement).stages = <<"_parse_csv">>
    /\ Len(CsvDrafts) = 5

-----------------------------------------------------------------------------
(* Claims about the amounts of the drafts *)

\* C29: no strategy emits a draft without a positive amount whose debit and
\* credit are both zero: every draft of the extracted list has an amount
\* above zero, or a debit or a credit that is not zero.
C29_NoZeroDraft ==
    Parsed =>
        Let(Extracted, LAMBDA extracted :
            \A k \in 1..Len(extracted) :
                \/ "amount" \in extracted[k].has /\ extracted[k].amount.v > 0
                \/ extracted[k].debit # 0
                \/ extracted[k].credit # 0)

-----------------------------------------------------------------------------
(* Claims about the column mappings *)

\* the mapping the routine that was called makes of the first n columns
MappingOfFirst(n) ==
    Let(JoinColumns(SubSeq(fn_arg.columns, 1, n), fn_arg.delimiter), LAMBDA header_line :
        IF fn_name = "GenericStatementParser._map_columns"
        THEN generic_map_columns(header_line, fn_arg.delimiter)
        ELSE IF fn_name = "BankStatementParser._map_columns"
        THEN map_columns(<<header_line>>, fn_arg.delimiter, 1, NoColumns)
        ELSE csv_map_line(header_line, 1, NoColumns))

\* C30: during header mapping the first matching column wins: a field that
\* has a column index once the first n columns of the header are read keeps
\* this index in the mapping of the whole header, whatever columns follow,
\* with a delimiter and with space-delimited words alike.
C30_FirstColumnWins ==
    fn_name \in {"GenericStatementParser._map_columns",
                 "BankStatementParser._map_columns",
                 "BankStatementParser._parse_csv"} =>
        \A n \in 1..Len(fn_arg.columns) :
            Let(MappingOfFirst(n), LAMBDA first :
                \A field \in DOMAIN first :
                    first[field] >= 0 => fn_ret[field] = first[field])

\* the same for the mappings that split the header at a delimiter and assign
\* the fields column by column
DelimitedFirstColumnWins ==
    (/\ fn_name \in {"GenericStatementParser._map_columns",
                     "BankStatementParser._map_columns"}
     /\ fn_arg.delimiter = ",") =>
        \A n \in 1..Len(fn_arg.columns) :
            Let(MappingOfFirst(n), LAMBDA first :
                \A field \in DOMAIN first :
                    first[field] >= 0 => fn_ret[field] = first[field])


=============================================================================
